---- MODULE Spec2Model ----
(***************************************************************************)
(* Bondra matching core: QueueManager, SessionManager and PairingEngine    *)
(* over the shared Redis store, and the socket layer above it:             *)
(* WebSocketServer, SocketManager and the chat, signal and match handlers. *)
(* Every awaited store command is one atomic step of the task that issues  *)
(* it; tasks are the concurrently running handler invocations of all       *)
(* server instances.                                                       *)
(***************************************************************************)
EXTENDS Integers, Sequences, FiniteSets, TLC

\* ------------------------------------------------------------------ bounds
NumUsers == 3
NumTasks == 3
NumWorkers == 2
MaxTime == 1
MaxSid == 2
MaxEvents == 2
FifoEvents == 4
FifoHorizon == 2
SweepHorizon == 8
SweepEvents == 1
NumInstances == 2
NumSockets == 4

Users == 1..NumUsers          \* user ids; numeric order stands for lexicographic order
Tasks == 1..NumTasks          \* concurrently running handler invocations
Workers == 1..NumWorkers      \* the invocations that serve arbitrary events
SessionIds == 1..MaxSid       \* ids allocated by Session.create

\* SessionType (config/constants), in the order the code iterates it
Modalities == <<"video", "audio", "text">>
ModSet == {"video", "audio", "text"}

NoScore == -1                 \* zscore === null
NoSid == 0                    \* get(session:user:u) === null
NoTask == 0                   \* lock key absent

\* the sockets of the fleet: socket s belongs to user OwnerOf(s) and is
\* terminated by instance InstanceOf(s); users 1 and 2 each have a socket on
\* instance 1, user 1 a second one there, user 2 one on instance 2
Instances == 1..NumInstances
Sockets == 1..NumSockets
OwnerOf(s) == IF s % 2 = 1 THEN 1 ELSE 2
InstanceOf(s) == IF s = 2 THEN 2 ELSE 1

\* time is counted in units of 10 s in the sweep specification
QUEUE_TIMEOUT == 6            \* 60000 ms
QUEUE_CLEANUP_INTERVAL == 1   \* 10 s between two runs of the stale sweep

VARIABLES
  queue,      \* queue[m][u]: score of u in the sorted set of modality m, or NoScore
  blob,       \* blob[u]: <<>> or <<IQueueUser>> under queue:video:user:<u>
  lock,       \* lock[m]: task holding lock:matching:<m>, or NoTask
  sessRec,    \* sessRec[s]: <<>> or <<IActiveSession>> under session:<s>
  sessUser,   \* sessUser[u]: session id under session:user:<u>, or NoSid
  db,         \* db[s]: status of the session row: "none", "active", "ended", "abandoned"
  nextSid,    \* next id Session.create allocates
  now,        \* Date.now()
  task,       \* task[t]: the frame of handler invocation t
  served,     \* served[t]: events worker t has taken up so far
  userSockets, \* userSockets[i][u]: <<>> or <<set of socket ids>>, SocketManager's map on instance i
  presence,   \* presence[u]: the presence tracker has u online
  inbox,      \* inbox[s]: the events emitted to socket s, oldest first
  sockState,  \* sockState[s]: "new", "open" (in activeConnections), "closed" or "refused"
  load,       \* load[i]: the cpu and memory percentages instance i measures now
  lb          \* lb[i]: instance i's key loadbalancer:instance:<i> (rec, exp: when it
              \* expires), its metrics key, and whether its heartbeat timer is set

vars == <<queue, blob, lock, sessRec, sessUser, db, nextSid, now, task, served,
          userSockets, presence, inbox, sockState, load, lb>>
store == <<queue, blob, lock, sessRec, sessUser, db, nextSid>>
wire == <<userSockets, presence, inbox, sockState, load, lb>>

\* ------------------------------------------------------------- task frames
Idle ==
  [op |-> "idle", pc |-> "idle", ret |-> <<>>, rv |-> <<>>,
   uid |-> 0, sock |-> 0, mod |-> "video", peer |-> 0, idx |-> 0,
   users |-> <<>>, orig |-> <<>>, low |-> FALSE, pid |-> 0, pd |-> <<>>,
   a |-> 0, asock |-> 0, am |-> "video", ts |-> 0,
   c1 |-> 0, c2 |-> 0, s1 |-> <<>>, sid |-> 0,
   q0 |-> <<>>, res |-> "none"]

\* the top-level handler completes with result r
Finish(f, r) == [Idle EXCEPT !.op = f.op, !.pc = "done", !.uid = f.uid,
                             !.mod = f.mod, !.peer = f.peer, !.sid = f.sid,
                             !.q0 = f.q0, !.res = r]

Set(t, f) == task' = [task EXCEPT ![t] = f]

\* a called function returns v: its caller runs on, up to its next store
\* command (no other task can run in between, the code does not await there)
RECURSIVE Resume(_, _)

\* ----------------------------------------------------------- sorted sets
\* Redis orders a sorted set by score, then by member
Members(q) == {u \in Users : q[u] # NoScore}
Lower(q, u, v) == q[u] < q[v] \/ (q[u] = q[v] /\ u < v)
Rank(q, u) == Cardinality({v \in Members(q) : Lower(q, v, u)})
AtRank(q, r) == CHOOSE u \in Members(q) : Rank(q, u) = r

\* mutant: zrange(key, 1, 2)
ZRange12(q) ==
  IF Cardinality(Members(q)) <= 1 THEN <<>>
  ELSE IF Cardinality(Members(q)) = 2 THEN <<AtRank(q, 1)>>
  ELSE <<AtRank(q, 1), AtRank(q, 2)>>

\* zrange(key, 0, 1)
ZRange01(q) ==
  IF Cardinality(Members(q)) = 0 THEN <<>>
  ELSE IF Cardinality(Members(q)) = 1 THEN <<AtRank(q, 0)>>
  ELSE <<AtRank(q, 0), AtRank(q, 1)>>

\* zrem(key, members...)
ZRem(q, S) == [u \in Users |-> IF u \in S THEN NoScore ELSE q[u]]

\* zremrangebyscore(key, 0, max)
ZRemRangeByScore(q, max) ==
  [u \in Users |-> IF q[u] # NoScore /\ q[u] <= max THEN NoScore ELSE q[u]]

\* S is the set of the two lowest members of q in (joinedAt, userId) order
IsLowestTwo(q, S) ==
  /\ S \subseteq Members(q)
  /\ Cardinality(S) = 2
  /\ \A u \in S, v \in Members(q) \ S : Lower(q, u, v)

\* the members of q from the lowest to the highest
RECURSIVE InOrder(_, _)
InOrder(q, r) ==
  IF r >= Cardinality(Members(q)) THEN <<>> ELSE <<AtRank(q, r)>> \o InOrder(q, r + 1)

\* getQueuePosition: zrank + 1, 0 when absent
QueuePosition(m, u) == IF queue[m][u] = NoScore THEN 0 ELSE Rank(queue[m], u) + 1

\* ------------------------------------------------ QueueManager.addToQueue
\* the call: timestamp = Date.now() is taken before the first store command
CallAddToQueue(f, u, s, m, k) ==
  [f EXCEPT !.pc = "atq_zscore", !.ret = <<k>> \o f.ret,
            !.a = u, !.asock = s, !.am = m, !.ts = now]

\* mutant: the existing score is not looked at
AtqZscoreUnchecked(t) ==
  LET f == task[t] IN
  /\ f.pc = "atq_zscore"
  /\ Set(t, [f EXCEPT !.pc = "atq_set"])
  /\ UNCHANGED <<store, now, served, wire>>

\* existingScore = zscore(queueKey, userId): only the requested modality's set
\* is probed; a hit returns false
AtqZscore(t) ==
  LET f == task[t] IN
  /\ f.pc = "atq_zscore"
  /\ IF queue[f.am][f.a] # NoScore
       THEN Set(t, Resume(f, <<>>))
       ELSE Set(t, [f EXCEPT !.pc = "atq_set"])
  /\ UNCHANGED <<store, now, served, wire>>

\* set(queue:video:user:<u>, userData): one key per user, whatever the modality
AtqSet(t) ==
  LET f == task[t] IN
  /\ f.pc = "atq_set"
  /\ blob' = [blob EXCEPT ![f.a] = <<[userId |-> f.a, socketId |-> f.asock,
                                     joinedAt |-> f.ts]>>]
  /\ Set(t, [f EXCEPT !.pc = "atq_zadd"])
  /\ UNCHANGED <<queue, lock, sessRec, sessUser, db, nextSid, now, served, wire>>

\* zadd(queueKey, timestamp, userId); return true
AtqZadd(t) ==
  LET f == task[t] IN
  /\ f.pc = "atq_zadd"
  /\ queue' = [queue EXCEPT ![f.am][f.a] = f.ts]
  /\ Set(t, Resume(f, <<TRUE>>))
  /\ UNCHANGED <<blob, lock, sessRec, sessUser, db, nextSid, now, served, wire>>

\* ------------------------------------------- QueueManager.removeFromQueue
\* getUserData feeds the wait-time metric only; the first command that
\* matters is the zrem
CallRemoveFromQueue(f, u, m, k) ==
  [f EXCEPT !.pc = "rfq_zrem", !.ret = <<k>> \o f.ret, !.a = u, !.am = m]

\* mutant: the zrem is left out, its result made up from a zscore
RfqZremReportOnly(t) ==
  LET f == task[t] IN
  /\ f.pc = "rfq_zrem"
  /\ queue' = queue
  /\ Set(t, [f EXCEPT !.pc = "rfq_del",
                      !.rv = IF queue[f.am][f.a] # NoScore THEN <<TRUE>> ELSE <<>>])
  /\ UNCHANGED <<blob, lock, sessRec, sessUser, db, nextSid, now, served, wire>>

\* removed = zrem(queueKey, userId)
RfqZrem(t) ==
  LET f == task[t] IN
  /\ f.pc = "rfq_zrem"
  /\ queue' = [queue EXCEPT ![f.am] = ZRem(queue[f.am], {f.a})]
  /\ Set(t, [f EXCEPT !.pc = "rfq_del",
                      !.rv = IF queue[f.am][f.a] # NoScore THEN <<TRUE>> ELSE <<>>])
  /\ UNCHANGED <<blob, lock, sessRec, sessUser, db, nextSid, now, served, wire>>

\* del(queue:video:user:<u>), whether or not the zrem removed anything;
\* return removed > 0
RfqDel(t) ==
  LET f == task[t] IN
  /\ f.pc = "rfq_del"
  /\ blob' = [blob EXCEPT ![f.a] = <<>>]
  /\ Set(t, Resume(f, f.rv))
  /\ UNCHANGED <<queue, lock, sessRec, sessUser, db, nextSid, now, served, wire>>

\* ------------------------------------------------- RedisService lock
\* acquireLock: set-if-absent
AcquireLock(m, t) == lock[m] = NoTask
\* releaseLock(lockKey): the caller hands over the key and nothing that says
\* who it is, so the key is removed whoever holds it
ReleaseLock(m, t) == [lock EXCEPT ![m] = NoTask]

\* LOCK_TTL runs out while the holder waits for the store: the key is gone
LockExpires(m) ==
  /\ lock[m] # NoTask
  /\ lock' = [lock EXCEPT ![m] = NoTask]
  /\ UNCHANGED <<queue, blob, sessRec, sessUser, db, nextSid, now, task, served, wire>>

\* ------------------------------------------------- QueueManager.findMatch
CallFindMatch(f, k) == [f EXCEPT !.pc = "fm_lock", !.ret = <<k>> \o f.ret]

\* mutant: the result of acquireLock is not looked at
FmLockUnchecked(t) ==
  LET f == task[t] IN
  /\ f.pc = "fm_lock"
  /\ lock' = IF AcquireLock(f.mod, t) THEN [lock EXCEPT ![f.mod] = t] ELSE lock
  /\ Set(t, [f EXCEPT !.pc = "fm_range"])
  /\ UNCHANGED <<queue, blob, sessRec, sessUser, db, nextSid, now, served, wire>>

\* lock = acquireLock(lockKey, LOCK_TTL); if (!lock) return null
FmLock(t) ==
  LET f == task[t] IN
  /\ f.pc = "fm_lock"
  /\ IF AcquireLock(f.mod, t)
       THEN /\ lock' = [lock EXCEPT ![f.mod] = t]
            /\ Set(t, [f EXCEPT !.pc = "fm_range"])
       ELSE /\ lock' = lock
            /\ Set(t, Resume(f, <<>>))
  /\ UNCHANGED <<queue, blob, sessRec, sessUser, db, nextSid, now, served, wire>>

\* partnerId = users[0] === userId ? users[1] : users[0]
PartnerOf(users, userId) == IF users[1] = userId THEN users[2] ELSE users[1]

\* mutant: the users.includes(userId) test is left out
FmRangeNoIncludes(t) ==
  LET f == task[t]
      users == ZRange01(queue[f.mod]) IN
  /\ f.pc = "fm_range"
  /\ IF Len(users) < 2
       THEN Set(t, [f EXCEPT !.pc = "fm_release_null"])
       ELSE Set(t, [f EXCEPT !.pc = "fm_zrem", !.users = users,
                             !.pid = PartnerOf(users, f.uid)])
  /\ UNCHANGED <<store, now, served, wire>>

\* users = zrange(queueKey, 0, 1); fewer than two, or the caller not among
\* them: release and return null
FmRange(t) ==
  LET f == task[t]
      users == ZRange01(queue[f.mod]) IN
  /\ f.pc = "fm_range"
  /\ IF Len(users) < 2 \/ f.uid \notin {users[i] : i \in 1..Len(users)}
       THEN Set(t, [f EXCEPT !.pc = "fm_release_null"])
       ELSE Set(t, [f EXCEPT !.pc = "fm_zrem", !.users = users,
                             !.pid = PartnerOf(users, f.uid)])
  /\ UNCHANGED <<store, now, served, wire>>

\* releaseLock(lockKey); return null
FmReleaseNull(t) ==
  LET f == task[t] IN
  /\ f.pc = "fm_release_null"
  /\ lock' = ReleaseLock(f.mod, t)
  /\ Set(t, Resume(f, <<>>))
  /\ UNCHANGED <<queue, blob, sessRec, sessUser, db, nextSid, now, served, wire>>

\* mutant: zrem(queueKey, users[0])
FmZremFirstOnly(t) ==
  LET f == task[t] IN
  /\ f.pc = "fm_zrem"
  /\ queue' = [queue EXCEPT ![f.mod] = ZRem(queue[f.mod], {f.users[1]})]
  /\ Set(t, [f EXCEPT !.pc = "fm_getdata",
                      !.orig = <<queue[f.mod][f.users[1]], queue[f.mod][f.users[2]]>>,
                      !.low = IsLowestTwo(queue[f.mod], {f.users[1], f.users[2]})])
  /\ UNCHANGED <<blob, lock, sessRec, sessUser, db, nextSid, now, served, wire>>

\* zrem(queueKey, users[0], users[1]): one command removes both members
\* (orig keeps the scores the two had, and low whether the two were the lowest
\* two members at this moment, for the properties; the code reads neither)
FmZrem(t) ==
  LET f == task[t] IN
  /\ f.pc = "fm_zrem"
  /\ queue' = [queue EXCEPT ![f.mod] = ZRem(queue[f.mod], {f.users[1], f.users[2]})]
  /\ Set(t, [f EXCEPT !.pc = "fm_getdata",
                      !.orig = <<queue[f.mod][f.users[1]], queue[f.mod][f.users[2]]>>,
                      !.low = IsLowestTwo(queue[f.mod], {f.users[1], f.users[2]})])
  /\ UNCHANGED <<blob, lock, sessRec, sessUser, db, nextSid, now, served, wire>>

\* partnerData = getUserData(partnerId)
FmGetData(t) ==
  LET f == task[t] IN
  /\ f.pc = "fm_getdata"
  /\ Set(t, [f EXCEPT !.pc = "fm_release", !.pd = blob[f.pid]])
  /\ UNCHANGED <<store, now, served, wire>>

\* releaseLock(lockKey); without partner data the caller alone is re-added,
\* with an empty socket id; else return partnerData
FmRelease(t) ==
  LET f == task[t] IN
  /\ f.pc = "fm_release"
  /\ lock' = ReleaseLock(f.mod, t)
  /\ IF f.pd = <<>>
       THEN Set(t, CallAddToQueue(f, f.uid, 0, f.mod, "fm_readded"))
       ELSE Set(t, Resume(f, f.pd))
  /\ UNCHANGED <<queue, blob, sessRec, sessUser, db, nextSid, now, served, wire>>

\* after the re-add of the caller: 'Partner data not found', return null
FindMatchCont(k, g, v) == Resume([g EXCEPT !.users = <<>>, !.orig = <<>>, !.low = FALSE, !.pid = 0], <<>>)

\* ------------------------------------------ SessionManager.getActiveSession
CallGetActiveSession(f, u, k) ==
  [f EXCEPT !.pc = "gas_ptr", !.ret = <<k>> \o f.ret, !.a = u]

\* sessionId = get(session:user:<u>); if (!sessionId) return null
GasPtr(t) ==
  LET f == task[t] IN
  /\ f.pc = "gas_ptr"
  /\ IF sessUser[f.a] = NoSid
       THEN Set(t, Resume(f, <<>>))
       ELSE Set(t, [f EXCEPT !.pc = "gas_rec", !.sid = sessUser[f.a]])
  /\ UNCHANGED <<store, now, served, wire>>

\* sessionData = get(session:<sessionId>); found: return it
GasRec(t) ==
  LET f == task[t] IN
  /\ f.pc = "gas_rec"
  /\ IF sessRec[f.sid] = <<>>
       THEN Set(t, [f EXCEPT !.pc = "gas_del"])
       ELSE Set(t, Resume([f EXCEPT !.sid = 0], sessRec[f.sid]))
  /\ UNCHANGED <<store, now, served, wire>>

\* clean up the stale mapping: del(session:user:<u>); return null
GasDel(t) ==
  LET f == task[t] IN
  /\ f.pc = "gas_del"
  /\ sessUser' = [sessUser EXCEPT ![f.a] = NoSid]
  /\ Set(t, Resume([f EXCEPT !.sid = 0], <<>>))
  /\ UNCHANGED <<queue, blob, lock, sessRec, db, nextSid, now, served, wire>>

\* -------------------------------------------- SessionManager.createSession
\* user1Session = getActiveSession(user1Id)
CallCreateSession(f, u1, u2, k) ==
  CallGetActiveSession([f EXCEPT !.c1 = u1, !.c2 = u2, !.ret = <<k>> \o f.ret],
                       u1, "cs_got1")

\* mutant: only user1Session is looked at
CreateSessionContFirstOnly(k, g, v) ==
  IF k = "cs_got1"
    THEN CallGetActiveSession([g EXCEPT !.s1 = v], g.c2, "cs_got2")
    ELSE IF g.s1 # <<>>
      THEN Resume([g EXCEPT !.c1 = 0, !.c2 = 0, !.s1 = <<>>], <<>>)
      ELSE [g EXCEPT !.pc = "cs_db", !.s1 = <<>>]

\* user2Session = getActiveSession(user2Id);
\* if (user1Session || user2Session) return null; else Session.create
CreateSessionCont(k, g, v) ==
  IF k = "cs_got1"
    THEN CallGetActiveSession([g EXCEPT !.s1 = v], g.c2, "cs_got2")
    ELSE IF g.s1 # <<>> \/ v # <<>>
      THEN Resume([g EXCEPT !.c1 = 0, !.c2 = 0, !.s1 = <<>>], <<>>)
      ELSE [g EXCEPT !.pc = "cs_db", !.s1 = <<>>]

\* Session.create(sessionType, user1Id, user2Id): a new row with a fresh id and
\* status active when ok, null otherwise
CsDb(t, ok) ==
  LET f == task[t] IN
  /\ f.pc = "cs_db"
  /\ IF ok
       THEN /\ nextSid <= MaxSid
            /\ db' = [db EXCEPT ![nextSid] = "active"]
            /\ nextSid' = nextSid + 1
            /\ Set(t, [f EXCEPT !.pc = "cs_setrec", !.sid = nextSid])
       ELSE /\ UNCHANGED <<db, nextSid, wire>>
            /\ Set(t, Resume([f EXCEPT !.c1 = 0, !.c2 = 0], <<>>))
  /\ UNCHANGED <<queue, blob, lock, sessRec, sessUser, now, served, wire>>

\* Promise.all, first command: setex(session:<id>, SESSION_TTL, sessionData)
CsSetRec(t) ==
  LET f == task[t] IN
  /\ f.pc = "cs_setrec"
  /\ sessRec' = [sessRec EXCEPT ![f.sid] =
                   <<[id |-> f.sid, sessionType |-> f.mod,
                      user1Id |-> f.c1, user2Id |-> f.c2]>>]
  /\ Set(t, [f EXCEPT !.pc = "cs_setu1"])
  /\ UNCHANGED <<queue, blob, lock, sessUser, db, nextSid, now, served, wire>>

\* Promise.all, second command: setex(session:user:<user1Id>, SESSION_TTL, id)
CsSetU1(t) ==
  LET f == task[t] IN
  /\ f.pc = "cs_setu1"
  /\ sessUser' = [sessUser EXCEPT ![f.c1] = f.sid]
  /\ Set(t, [f EXCEPT !.pc = "cs_setu2"])
  /\ UNCHANGED <<queue, blob, lock, sessRec, db, nextSid, now, served, wire>>

\* Promise.all, third command: setex(session:user:<user2Id>, SESSION_TTL, id);
\* return session
CsSetU2(t) ==
  LET f == task[t] IN
  /\ f.pc = "cs_setu2"
  /\ sessUser' = [sessUser EXCEPT ![f.c2] = f.sid]
  /\ Set(t, Resume([f EXCEPT !.c1 = 0, !.c2 = 0, !.sid = 0], <<f.sid>>))
  /\ UNCHANGED <<queue, blob, lock, sessRec, db, nextSid, now, served, wire>>

\* the third setex is answered with an error: Promise.all rejects after the
\* first two commands were carried out, and the catch block returns null
CsSetU2Fails(t) ==
  LET f == task[t] IN
  /\ f.pc = "cs_setu2"
  /\ Set(t, Resume([f EXCEPT !.c1 = 0, !.c2 = 0, !.sid = 0], <<>>))
  /\ UNCHANGED <<store, now, served, wire>>

\* ------------------------------------------------ PairingEngine.matchUser
CallMatchUser(f, k) == [f EXCEPT !.pc = "mu_inq", !.ret = <<k>> \o f.ret, !.idx = 1]

\* isUserInQueue: zscore on the video, audio and text sets in turn, stopping at
\* the first hit, then findMatch; no hit: 'User not in queue'
MuInQueue(t) ==
  LET f == task[t] IN
  /\ f.pc = "mu_inq"
  /\ IF queue[Modalities[f.idx]][f.uid] # NoScore
       THEN Set(t, CallFindMatch([f EXCEPT !.idx = 0], "mu_found"))
       ELSE IF f.idx < Len(Modalities)
         THEN Set(t, [f EXCEPT !.idx = f.idx + 1])
         ELSE Set(t, Resume([f EXCEPT !.idx = 0], <<>>))
  /\ UNCHANGED <<store, now, served, wire>>

\* mutant: after a failed createSession only the caller is re-added
MatchUserContCallerOnly(k, g, v) ==
  LET done == [g EXCEPT !.users = <<>>, !.orig = <<>>, !.low = FALSE, !.pid = 0, !.pd = <<>>] IN
  CASE k = "mu_found" ->
         IF v = <<>> THEN Resume(done, <<>>)
         ELSE CallCreateSession(g, g.uid, g.pd[1].userId, "mu_created")
    [] k = "mu_created" ->
         IF v = <<>> THEN CallAddToQueue(g, g.uid, 0, g.mod, "mu_readd1")
         ELSE CallRemoveFromQueue([g EXCEPT !.sid = v[1]], g.uid, g.mod, "mu_rm1")
    [] k \in {"mu_readd1", "mu_readd2"} -> Resume(done, <<>>)
    [] k = "mu_rm1" -> CallRemoveFromQueue(g, g.pd[1].userId, g.mod, "mu_rm2")
    [] k = "mu_rm2" -> Resume([done EXCEPT !.peer = g.pd[1].userId], <<TRUE>>)

\* the rest of matchUser, after each call it makes
MatchUserCont(k, g, v) ==
  LET done == [g EXCEPT !.users = <<>>, !.orig = <<>>, !.low = FALSE, !.pid = 0, !.pd = <<>>] IN
  CASE k = "mu_found" ->
         \* partner = findMatch(...); none: 'No match found'; else createSession
         IF v = <<>> THEN Resume(done, <<>>)
         ELSE CallCreateSession(g, g.uid, g.pd[1].userId, "mu_created")
    [] k = "mu_created" ->
         \* no session: re-add the caller (empty socket id); else remove the caller
         IF v = <<>> THEN CallAddToQueue(g, g.uid, 0, g.mod, "mu_readd1")
         ELSE CallRemoveFromQueue([g EXCEPT !.sid = v[1]], g.uid, g.mod, "mu_rm1")
    [] k = "mu_readd1" ->
         \* addToQueue(partner.userId, partner.socketId, queueType)
         CallAddToQueue(g, g.pd[1].userId, g.pd[1].socketId, g.mod, "mu_readd2")
    [] k = "mu_readd2" ->
         \* 'Failed to create session'
         Resume(done, <<>>)
    [] k = "mu_rm1" ->
         \* removeFromQueue(partner.userId, queueType)
         CallRemoveFromQueue(g, g.pd[1].userId, g.mod, "mu_rm2")
    [] k = "mu_rm2" ->
         \* publish match:found; success with sessionId and partner
         Resume([done EXCEPT !.peer = g.pd[1].userId], <<TRUE>>)

\* ----------------------------------------------- PairingEngine.quickMatch
\* added = addToQueue(userId, socketId, queueType)
StartQuickMatch(t, u, m) ==
  /\ task[t].pc = "idle"
  /\ Set(t, CallAddToQueue([Idle EXCEPT !.op = "quickMatch", !.uid = u, !.sock = u,
                                        !.mod = m], u, u, m, "qm_added"))
  /\ served[t] < MaxEvents
  /\ served' = [served EXCEPT ![t] = served[t] + 1]
  /\ UNCHANGED <<store, now, wire>>

\* if (!added) 'Failed to join queue'; result = matchUser(userId, queueType);
\* result.success ? result : 'Waiting for match'
QuickMatchCont(k, g, v) ==
  IF k = "qm_added"
    THEN IF v = <<>> THEN Finish(g, "failed_to_join")
         ELSE CallMatchUser(g, "qm_matched")
    ELSE Finish(g, IF v = <<>> THEN "waiting" ELSE "matched")

\* ------------------------------------------ setupMatchHandler: queue:join
\* inSession = isUserInSession(userId), that is getActiveSession(userId)
StartQueueJoin(t, u, m) ==
  /\ task[t].pc = "idle"
  /\ Set(t, CallGetActiveSession([Idle EXCEPT !.op = "queue:join", !.uid = u,
                                              !.sock = u, !.mod = m], u, "qj_checked"))
  /\ served[t] < MaxEvents
  /\ served' = [served EXCEPT ![t] = served[t] + 1]
  /\ UNCHANGED <<store, now, wire>>

\* if (inSession) 'Already in active session'; else quickMatch(userId,
\* socket.id, type)
QueueJoinCont(k, g, v) ==
  IF v # <<>> THEN Finish(g, "already_in_session")
  ELSE CallAddToQueue(g, g.uid, g.sock, g.mod, "qm_added")

\* --------------------------------------------- PairingEngine.cancelMatching
\* removed = removeFromQueue(userId, queueType); return removed
StartCancelMatching(t, u, m) ==
  /\ task[t].pc = "idle"
  /\ Set(t, CallRemoveFromQueue([Idle EXCEPT !.op = "cancelMatching", !.uid = u,
                                             !.mod = m], u, m, "cm_removed"))
  /\ served[t] < MaxEvents
  /\ served' = [served EXCEPT ![t] = served[t] + 1]
  /\ UNCHANGED <<store, now, wire>>

CancelMatchingCont(k, g, v) == Finish(g, IF v = <<>> THEN "not_removed" ELSE "removed")

\* ----------------------------------------------- SessionManager.endSession
\* sessionData = getSessionById(sessionId)
CallEndSession(f, s, k) ==
  [f EXCEPT !.pc = "es_get", !.ret = <<k>> \o f.ret, !.sid = s]

\* get(session:<sessionId>); none: 'Session not found', return false
EsGet(t) ==
  LET f == task[t] IN
  /\ f.pc = "es_get"
  /\ IF sessRec[f.sid] = <<>>
       THEN Set(t, Resume([f EXCEPT !.sid = 0], <<>>))
       ELSE Set(t, [f EXCEPT !.pc = "es_db", !.c1 = sessRec[f.sid][1].user1Id,
                             !.c2 = sessRec[f.sid][1].user2Id])
  /\ UNCHANGED <<store, now, served, wire>>

\* mutant: the row is updated whatever its status
EsDbAnyStatus(t) ==
  LET f == task[t] IN
  /\ f.pc = "es_db"
  /\ db' = [db EXCEPT ![f.sid] = IF f.op = "endAllActiveSessions" THEN "abandoned"
                                 ELSE "ended"]
  /\ Set(t, [f EXCEPT !.pc = "es_delrec"])
  /\ UNCHANGED <<queue, blob, lock, sessRec, sessUser, nextSid, now, served, wire>>

\* updated = Session.endSession(sessionId, status): the row leaves active once,
\* for ENDED, or for ABANDONED when endAllActiveSessions asks; not updated:
\* return false
EsDb(t) ==
  LET f == task[t] IN
  /\ f.pc = "es_db"
  /\ IF db[f.sid] = "active"
       THEN /\ db' = [db EXCEPT ![f.sid] = IF f.op = "endAllActiveSessions"
                                            THEN "abandoned" ELSE "ended"]
            /\ Set(t, [f EXCEPT !.pc = "es_delrec"])
       ELSE /\ db' = db
            /\ Set(t, Resume([f EXCEPT !.sid = 0, !.c1 = 0, !.c2 = 0], <<>>))
  /\ UNCHANGED <<queue, blob, lock, sessRec, sessUser, nextSid, now, served, wire>>

\* Promise.all, first command: del(session:<sessionId>)
EsDelRec(t) ==
  LET f == task[t] IN
  /\ f.pc = "es_delrec"
  /\ sessRec' = [sessRec EXCEPT ![f.sid] = <<>>]
  /\ Set(t, [f EXCEPT !.pc = "es_delu1"])
  /\ UNCHANGED <<queue, blob, lock, sessUser, db, nextSid, now, served, wire>>

\* Promise.all, second command: del(session:user:<user1Id>)
EsDelU1(t) ==
  LET f == task[t] IN
  /\ f.pc = "es_delu1"
  /\ sessUser' = [sessUser EXCEPT ![f.c1] = NoSid]
  /\ Set(t, [f EXCEPT !.pc = "es_delu2"])
  /\ UNCHANGED <<queue, blob, lock, sessRec, db, nextSid, now, served, wire>>

\* mutant: the third command deletes user1's pointer once more
EsDelU2WrongUser(t) ==
  LET f == task[t] IN
  /\ f.pc = "es_delu2"
  /\ sessUser' = [sessUser EXCEPT ![f.c1] = NoSid]
  /\ Set(t, Resume([f EXCEPT !.sid = 0, !.c1 = 0, !.c2 = 0], <<TRUE>>))
  /\ UNCHANGED <<queue, blob, lock, sessRec, db, nextSid, now, served, wire>>

\* Promise.all, third command: del(session:user:<user2Id>); return true
EsDelU2(t) ==
  LET f == task[t] IN
  /\ f.pc = "es_delu2"
  /\ sessUser' = [sessUser EXCEPT ![f.c2] = NoSid]
  /\ Set(t, Resume([f EXCEPT !.sid = 0, !.c1 = 0, !.c2 = 0], <<TRUE>>))
  /\ UNCHANGED <<queue, blob, lock, sessRec, db, nextSid, now, served, wire>>

\* ------------------------------------ SessionManager.endAllActiveSessions
\* sessions = getAllActiveSessions(): the session:<id> records a scan finds
\* (the scan and its reads are taken as one look at the store); each is then
\* ended in turn with status ABANDONED
StartEndAllActiveSessions(t) ==
  LET ids == SelectSeq([s \in SessionIds |-> s], LAMBDA s : sessRec[s] # <<>>)
      f == [Idle EXCEPT !.op = "endAllActiveSessions", !.users = ids, !.idx = 1] IN
  /\ task[t].pc = "idle"
  /\ Set(t, IF ids = <<>> THEN Finish(f, "ended_none")
            ELSE CallEndSession(f, ids[1], "eaa_ended"))
  /\ served[t] < MaxEvents
  /\ served' = [served EXCEPT ![t] = served[t] + 1]
  /\ UNCHANGED <<store, now, wire>>

\* ended = endSession(session.id, ABANDONED); if (ended) count++; after the
\* last session: return count
EndAllActiveSessionsCont(k, g, v) ==
  LET count == g.pid + (IF v = <<>> THEN 0 ELSE 1) IN
  IF g.idx < Len(g.users)
    THEN CallEndSession([g EXCEPT !.idx = g.idx + 1, !.pid = count],
                        g.users[g.idx + 1], "eaa_ended")
    ELSE Finish(g, IF count > 0 THEN "ended_some" ELSE "ended_none")

\* -------------------------------- SessionManager.cleanupAbandonedSessions
\* the cleanup timer fires: Session.cleanupAbandonedSessions(60) marks the
\* sessions that have been active for more than an hour, here the set S,
\* abandoned
StartCleanupAbandonedSessions(t, S) ==
  /\ task[t].pc \in {"idle", "done"}
  /\ \A s \in S : db[s] = "active"
  /\ db' = [s \in SessionIds |-> IF s \in S THEN "abandoned" ELSE db[s]]
  /\ Set(t, [Idle EXCEPT !.op = "cleanupAbandonedSessions", !.pc = "cas_scan"])
  /\ served[t] < MaxEvents
  /\ served' = [served EXCEPT ![t] = served[t] + 1]
  /\ UNCHANGED <<queue, blob, lock, sessRec, sessUser, nextSid, now, wire>>

\* scan(MATCH session:*): the keys of the session records
CasScan(t) ==
  LET f == task[t]
      ids == SelectSeq([s \in SessionIds |-> s], LAMBDA s : sessRec[s] # <<>>) IN
  /\ f.pc = "cas_scan"
  /\ Set(t, IF ids = <<>> THEN Finish(f, "clean")
            ELSE [f EXCEPT !.pc = "cas_key", !.users = ids, !.idx = 1])
  /\ UNCHANGED <<store, now, served, wire>>

\* for each key: dbSession = Session.findById(sessionId); no row, or a row
\* that is not active: del(key)
CasKey(t) ==
  LET f == task[t]
      s == f.users[f.idx] IN
  /\ f.pc = "cas_key"
  /\ sessRec' = IF db[s] # "active" THEN [sessRec EXCEPT ![s] = <<>>] ELSE sessRec
  /\ Set(t, IF f.idx < Len(f.users) THEN [f EXCEPT !.idx = f.idx + 1]
            ELSE Finish(f, "cleaned"))
  /\ UNCHANGED <<queue, blob, lock, sessUser, db, nextSid, now, served, wire>>

\* ------------------------------------------- PairingEngine.processQueue
\* the matching timer of modality m fires: processQueue(m) asks for the size
\* of the queue
StartProcessQueue(t, m) ==
  /\ task[t].pc \in {"idle", "done"}
  /\ Set(t, [Idle EXCEPT !.op = "processQueue", !.pc = "pq_card", !.mod = m])
  /\ UNCHANGED <<store, now, served, wire>>

\* queueSize = getQueueSize(queueType); fewer than two: return; else
\* matchOldestUsers floor(queueSize / 2) times, which writes a debug line each
\* time and sends no command to the store
PqCard(t) ==
  LET f == task[t]
      queueSize == Cardinality({u \in Users : queue[f.mod][u] # NoScore}) IN
  /\ f.pc = "pq_card"
  /\ Set(t, Finish(f, IF queueSize < 2 THEN "too_few" ELSE "processed"))
  /\ UNCHANGED <<store, now, served, wire>>

\* ---------------------------------------- SessionManager.endSessionForUser
\* session = getActiveSession(userId)
StartEndSessionForUser(t, u) ==
  /\ task[t].pc = "idle"
  /\ Set(t, CallGetActiveSession([Idle EXCEPT !.op = "endSessionForUser", !.uid = u],
                                 u, "efu_got"))
  /\ served[t] < MaxEvents
  /\ served' = [served EXCEPT ![t] = served[t] + 1]
  /\ UNCHANGED <<store, now, wire>>

\* if (!session) return false; return endSession(session.id, ENDED)
\* (called by a socket handler, the result returns to the handler; called on
\* its own, the results are told apart for the properties)
EndSessionForUserCont(k, g, v) ==
  IF k = "efu_got"
    THEN IF v = <<>> THEN (IF g.ret = <<>> THEN Finish(g, "no_session") ELSE Resume(g, <<>>))
         ELSE CallEndSession(g, v[1].id, "efu_ended")
    ELSE IF g.ret = <<>> THEN Finish(g, IF v = <<>> THEN "not_ended" ELSE "ended")
         ELSE Resume(g, v)

\* ------------------------------------------ PairingEngine.matchWithFriend
\* userSession = getActiveSession(userId)
StartMatchWithFriend(t, u, fr, m) ==
  /\ task[t].pc = "idle"
  /\ u # fr
  /\ Set(t, CallGetActiveSession([Idle EXCEPT !.op = "matchWithFriend", !.uid = u,
                                              !.peer = fr, !.mod = m], u, "mwf_got1"))
  /\ served[t] < MaxEvents
  /\ served' = [served EXCEPT ![t] = served[t] + 1]
  /\ UNCHANGED <<store, now, wire>>

\* friendSession = getActiveSession(friendId); either in a session: refuse;
\* else createSession(queueType, userId, friendId)
MatchWithFriendCont(k, g, v) ==
  CASE k = "mwf_got1" ->
         CallGetActiveSession([g EXCEPT !.s1 = v], g.peer, "mwf_got2")
    [] k = "mwf_got2" ->
         IF g.s1 # <<>> \/ v # <<>> THEN Finish(g, "already_in_session")
         ELSE CallCreateSession([g EXCEPT !.s1 = <<>>], g.uid, g.peer, "mwf_created")
    [] k = "mwf_created" ->
         IF v = <<>> THEN Finish(g, "create_failed")
         ELSE Finish([g EXCEPT !.sid = v[1]], "matched")

\* ------------------------------------------------ direct calls (scenarios)
\* queueManager.addToQueue called on its own (q0 keeps the queue as the call
\* found it, for the properties)
StartAddToQueue(t, u, m) ==
  /\ task[t].pc = "idle"
  /\ Set(t, CallAddToQueue([Idle EXCEPT !.op = "addToQueue", !.uid = u, !.sock = u,
                                        !.mod = m, !.q0 = InOrder(queue[m], 0)],
                           u, u, m, "atq_done"))
  /\ served[t] < FifoEvents
  /\ served' = [served EXCEPT ![t] = served[t] + 1]
  /\ UNCHANGED <<store, now, wire>>

AddToQueueCont(k, g, v) == Finish(g, IF v = <<>> THEN "not_added" ELSE "added")

\* queueManager.removeFromQueue called for the user and queue of the addToQueue
\* that has just returned true (q0 still is the queue before that addToQueue);
\* the caller gets the value removeFromQueue returns, as from cancelMatching
StartRemoveFromQueue(t) ==
  /\ task[t].pc = "done" /\ task[t].op = "addToQueue" /\ task[t].res = "added"
  /\ Set(t, CallRemoveFromQueue([Idle EXCEPT !.op = "removeFromQueue",
                                             !.uid = task[t].uid, !.mod = task[t].mod,
                                             !.q0 = task[t].q0],
                                task[t].uid, task[t].mod, "cm_removed"))
  /\ served[t] < FifoEvents
  /\ served' = [served EXCEPT ![t] = served[t] + 1]
  /\ UNCHANGED <<store, now, wire>>

\* pairingEngine.matchUser called on its own (q0 keeps the queue as the call
\* found it, for the properties)
StartMatchUser(t, u, m) ==
  /\ task[t].pc = "idle"
  /\ Set(t, CallMatchUser([Idle EXCEPT !.op = "matchUser", !.uid = u, !.sock = u,
                                       !.mod = m, !.q0 = InOrder(queue[m], 0)],
                          "mu_done"))
  /\ served[t] < FifoEvents
  /\ served' = [served EXCEPT ![t] = served[t] + 1]
  /\ UNCHANGED <<store, now, wire>>

MatchUserDoneCont(k, g, v) == Finish(g, IF v = <<>> THEN "not_matched" ELSE "matched")

\* pairingEngine.quickMatch called for a user of the scenario (q0 as above)
StartQuickMatchAt(t, u, m) ==
  /\ task[t].pc = "idle"
  /\ Set(t, CallAddToQueue([Idle EXCEPT !.op = "quickMatch", !.uid = u, !.sock = u,
                                        !.mod = m, !.q0 = InOrder(queue[m], 0)],
                           u, u, m, "qm_added"))
  /\ served[t] < FifoEvents
  /\ served' = [served EXCEPT ![t] = served[t] + 1]
  /\ UNCHANGED <<store, now, wire>>

\* ------------------------------------------------- PairingEngine.rematch
\* currentSession = getActiveSession(userId) (q0 keeps the requested queue as
\* the call found it, for the properties)
StartRematch(t, u, m) ==
  /\ task[t].pc = "idle" /\ served[t] = 0
  /\ Set(t, CallGetActiveSession([Idle EXCEPT !.op = "rematch", !.uid = u, !.mod = m,
                                              !.q0 = InOrder(queue[m], 0)],
                                 u, "rm_got"))
  /\ served' = [served EXCEPT ![t] = 1]
  /\ UNCHANGED <<store, now, wire>>

\* mutant: the current session is not ended
RematchContKeepSession(k, g, v) ==
  CASE k \in {"rm_got", "rm_ended"} -> CallRemoveFromQueue(g, g.uid, "video", "rm_rm1")
    [] k = "rm_rm1" -> CallRemoveFromQueue(g, g.uid, "audio", "rm_rm2")
    [] k = "rm_rm2" -> CallRemoveFromQueue(g, g.uid, "text", "rm_rm3")
    [] k = "rm_rm3" -> CallAddToQueue(g, g.uid, 0, g.mod, "qm_added")

\* if (currentSession) endSession(currentSession.id), its result not looked
\* at; removeFromAllQueues(userId), the three removeFromQueue calls in the
\* order of their first commands; return quickMatch(userId, '', queueType)
RematchCont(k, g, v) ==
  CASE k = "rm_got" ->
         IF v = <<>> THEN CallRemoveFromQueue(g, g.uid, "video", "rm_rm1")
         ELSE CallEndSession(g, v[1].id, "rm_ended")
    [] k = "rm_ended" -> CallRemoveFromQueue(g, g.uid, "video", "rm_rm1")
    [] k = "rm_rm1" -> CallRemoveFromQueue(g, g.uid, "audio", "rm_rm2")
    [] k = "rm_rm2" -> CallRemoveFromQueue(g, g.uid, "text", "rm_rm3")
    [] k = "rm_rm3" -> CallAddToQueue(g, g.uid, 0, g.mod, "qm_added")

\* ----------------------------------- WebSocketServer and SocketManager
\* task slot t serves socket t.  The socket connects: it is put into
\* activeConnections and registered, userSockets.get(userId).add(socket.id)
\* on a set created when absent; setUserOnline is awaited (s1 and q0 keep the
\* map before and after the registration, for the properties)
HandleConnection(t) ==
  LET u == OwnerOf(t)
      i == InstanceOf(t)
      old == userSockets[i][u]
      new == [userSockets EXCEPT ![i][u] = <<(IF old = <<>> THEN {} ELSE old[1]) \cup {t}>>] IN
  /\ t \in Sockets /\ sockState[t] = "new"
  /\ task[t].pc = "idle"
  /\ sockState' = [sockState EXCEPT ![t] = "open"]
  /\ userSockets' = new
  /\ Set(t, [Idle EXCEPT !.op = "connection", !.pc = "reg_online", !.uid = u,
                         !.sock = t, !.s1 = <<userSockets>>, !.q0 = <<new>>])
  /\ UNCHANGED <<store, now, served, load, lb, presence, inbox>>

\* presenceTracker.setUserOnline(userId, socket.id)
RegOnline(t) ==
  LET f == task[t] IN
  /\ f.pc = "reg_online"
  /\ presence' = [presence EXCEPT ![f.uid] = TRUE]
  /\ Set(t, [f EXCEPT !.pc = "done", !.res = "connected"])
  /\ UNCHANGED <<store, now, served, load, lb, userSockets, inbox, sockState>>

\* ------------------------------------- LoadBalancer.shouldAcceptConnection
\* the operating system's figures move: the next collectMetrics of instance i
\* finds these percentages
LoadChange(i) ==
  /\ \E c \in {90, 91}, m \in {85, 86} :
       load' = [load EXCEPT ![i] = [cpu |-> c, memory |-> m]]
  /\ UNCHANGED <<store, now, task, served, userSockets, presence, inbox, sockState, lb>>

\* mutant: the instance refuses only when both figures are over their limits
ShouldAcceptConnectionBoth(metrics) == ~(metrics.cpu > 90 /\ metrics.memory > 85)

\* metrics = collectMetrics(); false if metrics.cpu > 90 || metrics.memory > 85
ShouldAcceptConnection(metrics) == ~(metrics.cpu > 90 \/ metrics.memory > 85)

\* the upgrade of socket t on its instance: shouldAccept is consulted before
\* the socket is stored and registered; on refusal the socket is closed with
\* a transient-unavailable code and nothing else is done
Admission(t) ==
  /\ t \in Sockets /\ sockState[t] = "new"
  /\ task[t].pc = "idle"
  /\ IF ShouldAcceptConnection(load[InstanceOf(t)])
       THEN HandleConnection(t)
       ELSE /\ sockState' = [sockState EXCEPT ![t] = "refused"]
            /\ Set(t, [Idle EXCEPT !.op = "connection", !.pc = "done", !.uid = OwnerOf(t),
                                   !.sock = t, !.res = "refused"])
            /\ UNCHANGED <<store, now, served, load, lb, userSockets, presence, inbox>>

\* ------------------------------------------------ LoadBalancer: the record
\* time is counted in units of 10 s where the load balancer is concerned
INSTANCE_TTL == 3             \* 30 s
LbHorizon == 7

\* no key of the instance is in the store and its heartbeat timer is not set
NoInstance == [rec |-> <<>>, exp |-> 0, metrics |-> FALSE, timer |-> FALSE]

\* get(loadbalancer:instance:<i>): the record, unless the key has expired
Stored(i) == IF now < lb[i].exp THEN lb[i].rec ELSE <<>>

\* the store answers every command within the period in which it was issued
LbTick ==
  /\ now < LbHorizon
  /\ \A t \in Tasks : task[t].pc \in {"idle", "done"}
  /\ now' = now + 1
  /\ UNCHANGED <<store, task, served, wire>>

\* start(port): registerInstance writes the record with INSTANCE_TTL, then
\* startHeartbeat sets the timer
LbStart(i) ==
  /\ ~lb[i].timer
  /\ lb' = [lb EXCEPT ![i].rec = <<[activeConnections |-> 0, cpuUsage |-> 0,
                                    memoryUsage |-> 0, lastHeartbeat |-> now,
                                    isHealthy |-> TRUE]>>,
                      ![i].exp = now + INSTANCE_TTL, ![i].timer = TRUE]
  /\ UNCHANGED <<store, now, task, served, userSockets, presence, inbox, sockState, load>>

\* a read-modify-write of the instance's own record begins: the heartbeat
\* timer fires (sendHeartbeat, with the figures collectMetrics finds), or
\* updateConnectionCount(count), markUnhealthy or markHealthy is called
StartLbCall(t, i, op, count) ==
  /\ task[t].pc \in {"idle", "done"}
  /\ op = "sendHeartbeat" => lb[i].timer
  /\ Set(t, [Idle EXCEPT !.op = op, !.pc = "lb_get", !.idx = i, !.pid = count,
                         !.q0 = <<load[i]>>])
  /\ UNCHANGED <<store, now, served, wire>>

\* instanceData = get(instanceKey); nothing there: return; else the parsed
\* record with this call's fields replaced
LbGet(t) ==
  LET f == task[t]
      data == Stored(f.idx)
      instance ==
        CASE f.op = "sendHeartbeat" ->
               [data[1] EXCEPT !.cpuUsage = f.q0[1].cpu, !.memoryUsage = f.q0[1].memory,
                               !.lastHeartbeat = now]
          [] f.op = "updateConnectionCount" -> [data[1] EXCEPT !.activeConnections = f.pid]
          [] f.op = "markUnhealthy" -> [data[1] EXCEPT !.isHealthy = FALSE]
          [] f.op = "markHealthy" -> [data[1] EXCEPT !.isHealthy = TRUE] IN
  /\ f.pc = "lb_get"
  /\ Set(t, IF data = <<>> THEN Finish(f, "no_record")
            ELSE [f EXCEPT !.pc = "lb_setex", !.pd = <<instance>>])
  /\ UNCHANGED <<store, now, served, wire>>

\* setex(instanceKey, INSTANCE_TTL, JSON.stringify(instance)); the heartbeat
\* goes on to storeMetrics
LbSetex(t) ==
  LET f == task[t] IN
  /\ f.pc = "lb_setex"
  /\ lb' = [lb EXCEPT ![f.idx].rec = f.pd, ![f.idx].exp = now + INSTANCE_TTL]
  /\ Set(t, IF f.op = "sendHeartbeat" THEN [f EXCEPT !.pc = "hb_store"]
            ELSE Finish(f, "written"))
  /\ UNCHANGED <<store, now, served, userSockets, presence, inbox, sockState, load>>

\* storeMetrics: zadd, zremrangebyrank and expire on the metrics key, which
\* exists from the zadd on
HbStore(t) ==
  LET f == task[t] IN
  /\ f.pc = "hb_store"
  /\ lb' = [lb EXCEPT ![f.idx].metrics = TRUE]
  /\ Set(t, Finish(f, "beat"))
  /\ UNCHANGED <<store, now, served, userSockets, presence, inbox, sockState, load>>

\* stop(): stopHeartbeat clears the timer, deregisterInstance deletes the
\* instance key
LbStop(t, i) ==
  /\ task[t].pc \in {"idle", "done"}
  /\ lb[i].timer
  /\ lb' = [lb EXCEPT ![i].timer = FALSE, ![i].rec = <<>>, ![i].exp = 0]
  /\ Set(t, [Idle EXCEPT !.op = "stop", !.pc = "dr_metrics", !.idx = i])
  /\ UNCHANGED <<store, now, served, userSockets, presence, inbox, sockState, load>>

\* deregisterInstance: del(loadbalancer:metrics:<i>); stop() is over
DrMetrics(t) ==
  LET f == task[t] IN
  /\ f.pc = "dr_metrics"
  /\ lb' = [lb EXCEPT ![f.idx].metrics = FALSE]
  /\ Set(t, Finish(f, "stopped"))
  /\ UNCHANGED <<store, now, served, userSockets, presence, inbox, sockState, load>>

\* ------------------------------------- LoadBalancer: the static functions
\* getHealthyInstances: every record found is returned when
\* Date.now() - lastHeartbeat < 30000 and isHealthy (the scan and its reads
\* are taken as one look at the store; q0 is the list returned)
GetHealthyInstances(t) ==
  LET instances ==
        SelectSeq([i \in Instances |-> i],
                  LAMBDA i : /\ Stored(i) # <<>>
                             /\ now - Stored(i)[1].lastHeartbeat < 3
                             /\ Stored(i)[1].isHealthy) IN
  /\ task[t].pc \in {"idle", "done"}
  /\ Set(t, Finish([Idle EXCEPT !.op = "getHealthyInstances", !.q0 = instances],
                   "instances"))
  /\ UNCHANGED <<store, now, served, wire>>

\* cleanupDeadInstances: the scan; the keys are then looked at one by one
StartCleanupDeadInstances(t) ==
  /\ task[t].pc \in {"idle", "done"}
  /\ Set(t, [Idle EXCEPT !.op = "cleanupDeadInstances", !.pc = "cd_get", !.idx = 1])
  /\ UNCHANGED <<store, now, served, wire>>

\* data = get(key); a record with Date.now() - lastHeartbeat > 60000 is to be
\* removed, any other key is passed over
CdGet(t) ==
  LET f == task[t]
      data == Stored(f.idx) IN
  /\ f.pc = "cd_get"
  /\ Set(t, IF data # <<>> /\ now - data[1].lastHeartbeat > 6
              THEN [f EXCEPT !.pc = "cd_del"]
            ELSE IF f.idx < NumInstances THEN [f EXCEPT !.idx = f.idx + 1]
            ELSE Finish(f, "reaped"))
  /\ UNCHANGED <<store, now, served, wire>>

\* del(key); del(loadbalancer:metrics:<instanceId>); on to the next key
CdDel(t) ==
  LET f == task[t] IN
  /\ f.pc = "cd_del"
  /\ lb' = [lb EXCEPT ![f.idx].rec = <<>>, ![f.idx].exp = 0, ![f.idx].metrics = FALSE]
  /\ Set(t, IF f.idx < NumInstances THEN [f EXCEPT !.pc = "cd_get", !.idx = f.idx + 1]
            ELSE Finish(f, "reaped"))
  /\ UNCHANGED <<store, now, served, userSockets, presence, inbox, sockState, load>>

\* the socket closes while none of its handlers runs: it leaves
\* activeConnections and cleanupUserSession starts with removeFromAllQueues,
\* the three removeFromQueue calls in the order of their first commands
HandleDisconnection(t) ==
  LET h == IF task[t].op = "connection" THEN task[t] ELSE Idle IN
  /\ t \in Sockets /\ sockState[t] = "open"
  /\ task[t].pc \in {"idle", "done"}
  /\ sockState' = [sockState EXCEPT ![t] = "closed"]
  /\ Set(t, CallRemoveFromQueue([Idle EXCEPT !.op = "disconnect", !.uid = OwnerOf(t),
                                             !.sock = t, !.s1 = h.s1, !.q0 = h.q0],
                                OwnerOf(t), "video", "cu_rm1"))
  /\ UNCHANGED <<store, now, served, load, lb, userSockets, presence, inbox>>

\* the rest of cleanupUserSession: endSessionForUser, then setUserOffline
CleanupUserSessionCont(k, g, v) ==
  CASE k = "cu_rm1" -> CallRemoveFromQueue(g, g.uid, "audio", "cu_rm2")
    [] k = "cu_rm2" -> CallRemoveFromQueue(g, g.uid, "text", "cu_rm3")
    [] k = "cu_rm3" -> CallGetActiveSession([g EXCEPT !.ret = <<"cu_ended">> \o g.ret],
                                            g.uid, "efu_got")
    [] k = "cu_ended" -> [g EXCEPT !.pc = "cu_offline"]

\* presenceTracker.setUserOffline(userId), whatever other sockets the user has
CuOffline(t) ==
  LET f == task[t] IN
  /\ f.pc = "cu_offline"
  /\ presence' = [presence EXCEPT ![f.uid] = FALSE]
  /\ Set(t, [f EXCEPT !.pc = "cu_unreg"])
  /\ UNCHANGED <<store, now, served, load, lb, userSockets, inbox, sockState>>

\* mutant: the user's entry is kept when its set becomes empty
UnregisterSocketKeepEntry(t) ==
  LET f == task[t]
      i == InstanceOf(f.sock)
      old == userSockets[i][f.uid] IN
  /\ f.pc = "cu_unreg"
  /\ userSockets' = IF old = <<>> THEN userSockets
                    ELSE [userSockets EXCEPT ![i][f.uid] = <<old[1] \ {f.sock}>>]
  /\ Set(t, [f EXCEPT !.pc = "done", !.res = "disconnected"])
  /\ UNCHANGED <<store, now, served, load, lb, presence, inbox, sockState>>

\* unregisterSocket: the socket id leaves the user's set, if there is one; an
\* empty set is deleted from the map and setUserOffline is awaited
UnregisterSocket(t) ==
  LET f == task[t]
      i == InstanceOf(f.sock)
      old == userSockets[i][f.uid] IN
  /\ f.pc = "cu_unreg"
  /\ IF old = <<>>
       THEN /\ userSockets' = userSockets
            /\ Set(t, [f EXCEPT !.pc = "done", !.res = "disconnected"])
       ELSE IF old[1] \ {f.sock} = {}
         THEN /\ userSockets' = [userSockets EXCEPT ![i][f.uid] = <<>>]
              /\ Set(t, [f EXCEPT !.pc = "unreg_offline"])
         ELSE /\ userSockets' = [userSockets EXCEPT ![i][f.uid] = <<old[1] \ {f.sock}>>]
              /\ Set(t, [f EXCEPT !.pc = "done", !.res = "disconnected"])
  /\ UNCHANGED <<store, now, served, load, lb, presence, inbox, sockState>>

\* presenceTracker.setUserOffline(userId) of unregisterSocket
UnregOffline(t) ==
  LET f == task[t] IN
  /\ f.pc = "unreg_offline"
  /\ presence' = [presence EXCEPT ![f.uid] = FALSE]
  /\ Set(t, [f EXCEPT !.pc = "done", !.res = "disconnected"])
  /\ UNCHANGED <<store, now, served, load, lb, userSockets, inbox, sockState>>

\* ------------------------------------------- chat, signal and match handlers
\* SocketManager.emitToUser on instance i: the event goes to the socket ids
\* in the instance's own userSockets entry of the user, and to no others
EmitToUser(i, u, e) ==
  [s \in Sockets |->
     IF userSockets[i][u] # <<>> /\ s \in userSockets[i][u][1] /\ sockState[s] = "open"
       THEN Append(inbox[s], e) ELSE inbox[s]]

\* socket 1 (user 1) submits its t-th event, ev: chat:message with a valid
\* text, call:offer or match:next; its handler, running in slot t, starts with
\* partnerId = getSessionPartner(userId), that is getActiveSession(userId)
StartSocketEvent(t, ev) ==
  /\ task[t].pc = "idle" /\ served[t] = 0
  /\ \A t2 \in Tasks : t2 < t => served[t2] > 0
  /\ sockState[1] = "open"
  /\ Set(t, [Idle EXCEPT !.op = ev, !.pc = "gsp_ptr", !.uid = OwnerOf(1), !.sock = 1])
  /\ served' = [served EXCEPT ![t] = 1]
  /\ UNCHANGED <<store, now, wire>>

\* mutant: the length of the message is not looked at
StartChatMessageAnyLength(t, txt) ==
  LET f == [Idle EXCEPT !.op = "chat:message", !.uid = OwnerOf(1), !.sock = 1, !.q0 = txt]
      err == IF txt[1] = 0 \/ txt[2] = 0 THEN "Message cannot be empty" ELSE "" IN
  /\ task[t].pc = "idle" /\ served[t] = 0
  /\ \A t2 \in Tasks : t2 < t => served[t2] > 0
  /\ sockState[1] = "open"
  /\ IF err = ""
       THEN /\ Set(t, [f EXCEPT !.pc = "gsp_ptr"])
            /\ inbox' = inbox
       ELSE /\ Set(t, Finish(f, "invalid"))
            /\ inbox' = [inbox EXCEPT ![1] =
                           Append(@, [ev |-> "error", senderId |-> 0, seq |-> t,
                                      reason |-> err])]
  /\ served' = [served EXCEPT ![t] = 1]
  /\ UNCHANGED <<store, now, load, lb, userSockets, presence, sockState>>

\* socket 1 (user 1) submits its t-th event, a chat:message whose message has
\* txt[1] characters, txt[2] of them left by trim(): !message or an empty trim
\* answers 'Message cannot be empty', a length above 1000 'Message too long',
\* both on the sender's socket; else the handler goes on to getSessionPartner
\* (q0 keeps the message, for the properties)
StartChatMessage(t, txt) ==
  LET f == [Idle EXCEPT !.op = "chat:message", !.uid = OwnerOf(1), !.sock = 1, !.q0 = txt]
      err == IF txt[1] = 0 \/ txt[2] = 0 THEN "Message cannot be empty"
             ELSE IF txt[1] > 1000 THEN "Message too long (max 1000 characters)"
             ELSE "" IN
  /\ task[t].pc = "idle" /\ served[t] = 0
  /\ \A t2 \in Tasks : t2 < t => served[t2] > 0
  /\ sockState[1] = "open"
  /\ IF err = ""
       THEN /\ Set(t, [f EXCEPT !.pc = "gsp_ptr"])
            /\ inbox' = inbox
       ELSE /\ Set(t, Finish(f, "invalid"))
            /\ inbox' = [inbox EXCEPT ![1] =
                           Append(@, [ev |-> "error", senderId |-> 0, seq |-> t,
                                      reason |-> err])]
  /\ served' = [served EXCEPT ![t] = 1]
  /\ UNCHANGED <<store, now, load, lb, userSockets, presence, sockState>>

\* no partner: chat:message and call:offer answer 'No active session' on the
\* sender's socket; match:next goes on to endSessionForUser
NoPartner(f) ==
  IF f.op = "match:next" THEN CallGetActiveSession(f, f.uid, "efu_got")
  ELSE Finish(f, "no_session")

\* sessionId = get(session:user:<userId>)
GspPtr(t) ==
  LET f == task[t] IN
  /\ f.pc = "gsp_ptr"
  /\ IF sessUser[f.uid] = NoSid
       THEN /\ Set(t, NoPartner(f))
            /\ inbox' = IF f.op = "match:next" THEN inbox
                        ELSE [inbox EXCEPT ![f.sock] =
                                Append(@, [ev |-> "error", senderId |-> 0, seq |-> t,
                                           reason |-> "No active session"])]
       ELSE /\ Set(t, [f EXCEPT !.pc = "gsp_rec", !.sid = sessUser[f.uid]])
            /\ inbox' = inbox
  /\ UNCHANGED <<store, now, served, load, lb, userSockets, presence, sockState>>

\* sessionData = get(session:<sessionId>); the partner is the other member;
\* emitToUser(partnerId, event, payload): the chat message and the offer with
\* senderId, match:disconnected with its reason; match:next then calls
\* endSessionForUser (seq, the number of the submission, stands for the text)
GspRec(t) ==
  LET f == task[t]
      r == sessRec[f.sid][1]
      partnerId == IF r.user1Id = f.uid THEN r.user2Id ELSE r.user1Id
      g == [f EXCEPT !.sid = 0, !.peer = partnerId]
      e == IF f.op = "match:next"
             THEN [ev |-> "match:disconnected", senderId |-> 0, seq |-> t,
                   reason |-> "Partner clicked next"]
             ELSE [ev |-> f.op, senderId |-> f.uid, seq |-> t, reason |-> ""] IN
  /\ f.pc = "gsp_rec"
  /\ IF sessRec[f.sid] = <<>>
       THEN /\ Set(t, [f EXCEPT !.pc = "gsp_del"])
            /\ inbox' = inbox
       ELSE /\ inbox' = EmitToUser(InstanceOf(f.sock), partnerId, e)
            /\ Set(t, IF f.op = "match:next"
                        THEN CallGetActiveSession(g, f.uid, "efu_got")
                        ELSE Finish(g, "relayed"))
  /\ UNCHANGED <<store, now, served, load, lb, userSockets, presence, sockState>>

\* getActiveSession cleans up the stale mapping: del(session:user:<userId>)
GspDel(t) ==
  LET f == task[t]
      g == [f EXCEPT !.sid = 0] IN
  /\ f.pc = "gsp_del"
  /\ sessUser' = [sessUser EXCEPT ![f.uid] = NoSid]
  /\ Set(t, NoPartner(g))
  /\ inbox' = IF f.op = "match:next" THEN inbox
              ELSE [inbox EXCEPT ![f.sock] =
                      Append(@, [ev |-> "error", senderId |-> 0, seq |-> t,
                                 reason |-> "No active session"])]
  /\ UNCHANGED <<queue, blob, lock, sessRec, db, nextSid, now, served, load, lb,
                 userSockets, presence, sockState>>

\* ------------------------------------- QueueManager.cleanupStaleEntries
\* the task slot of the background sweeper
Sweeper == NumTasks

\* the sweep is run every QUEUE_CLEANUP_INTERVAL: run number served[t] is due at
\* served[t] * QUEUE_CLEANUP_INTERVAL; now = Date.now(); cutoff = now - QUEUE_TIMEOUT
StartCleanupStaleEntries(t) ==
  /\ task[t].pc \in {"idle", "done"}
  /\ served[t] * QUEUE_CLEANUP_INTERVAL = now
  /\ Set(t, [Idle EXCEPT !.op = "cleanupStaleEntries", !.pc = "cse_zrem",
                         !.idx = 1, !.ts = now - QUEUE_TIMEOUT, !.c1 = 0])
  /\ served' = [served EXCEPT ![t] = served[t] + 1]
  /\ UNCHANGED <<store, now, wire>>

\* mutant: the sweep looks at the video queue only
CseZremVideoOnly(t) ==
  LET f == task[t]
      m == Modalities[f.idx]
      removed == IF m = "video"
                   THEN Cardinality({u \in Users : queue[m][u] # NoScore /\ queue[m][u] <= f.ts})
                   ELSE 0 IN
  /\ f.pc = "cse_zrem"
  /\ queue' = [queue EXCEPT ![m] = IF m = "video" THEN ZRemRangeByScore(queue[m], f.ts)
                                                  ELSE queue[m]]
  /\ IF f.idx < Len(Modalities)
       THEN Set(t, [f EXCEPT !.idx = f.idx + 1, !.c1 = f.c1 + removed])
       ELSE Set(t, Finish(f, IF f.c1 + removed > 0 THEN "swept" ELSE "clean"))
  /\ UNCHANGED <<blob, lock, sessRec, sessUser, db, nextSid, now, served, wire>>

\* for each type in turn: removed = zremrangebyscore(queueKey, 0, cutoff);
\* totalRemoved += removed; after the last: return totalRemoved
CseZrem(t) ==
  LET f == task[t]
      m == Modalities[f.idx]
      removed == Cardinality({u \in Users : queue[m][u] # NoScore /\ queue[m][u] <= f.ts}) IN
  /\ f.pc = "cse_zrem"
  /\ queue' = [queue EXCEPT ![m] = ZRemRangeByScore(queue[m], f.ts)]
  /\ IF f.idx < Len(Modalities)
       THEN Set(t, [f EXCEPT !.idx = f.idx + 1, !.c1 = f.c1 + removed])
       ELSE Set(t, Finish(f, IF f.c1 + removed > 0 THEN "swept" ELSE "clean"))
  /\ UNCHANGED <<blob, lock, sessRec, sessUser, db, nextSid, now, served, wire>>

\* the handler invocation is over; its slot serves the next event
Recycle(t) ==
  /\ task[t].pc = "done"
  /\ Set(t, Idle)
  /\ UNCHANGED <<store, now, served, wire>>

\* ------------------------------------------------------------ control flow
Resume(f, v) ==
  LET k == Head(f.ret)
      g == [f EXCEPT !.pc = k, !.ret = Tail(f.ret), !.rv = <<>>,
                     !.a = 0, !.asock = 0, !.am = "video", !.ts = 0] IN
  CASE k \in {"qm_added", "qm_matched"} -> QuickMatchCont(k, g, v)
    [] k \in {"mu_found", "mu_created", "mu_readd1", "mu_readd2", "mu_rm1", "mu_rm2"}
         -> MatchUserCont(k, g, v)
    [] k = "fm_readded" -> FindMatchCont(k, g, v)
    [] k = "atq_done" -> AddToQueueCont(k, g, v)
    [] k = "mu_done" -> MatchUserDoneCont(k, g, v)
    [] k \in {"cs_got1", "cs_got2"} -> CreateSessionCont(k, g, v)
    [] k = "cm_removed" -> CancelMatchingCont(k, g, v)
    [] k \in {"efu_got", "efu_ended"} -> EndSessionForUserCont(k, g, v)
    [] k \in {"cu_rm1", "cu_rm2", "cu_rm3", "cu_ended"} -> CleanupUserSessionCont(k, g, v)
    [] k \in {"rm_got", "rm_ended", "rm_rm1", "rm_rm2", "rm_rm3"} -> RematchCont(k, g, v)
    [] k = "eaa_ended" -> EndAllActiveSessionsCont(k, g, v)
    [] k = "qj_checked" -> QueueJoinCont(k, g, v)
    [] k \in {"mwf_got1", "mwf_got2", "mwf_created"} -> MatchWithFriendCont(k, g, v)

\* --------------------------------------------------------------- the clock
Tick ==
  /\ now < MaxTime
  /\ now' = now + 1
  /\ UNCHANGED <<store, task, served, wire>>

\* the clock of the sequential scenarios
FifoTick ==
  /\ now < FifoHorizon
  /\ now' = now + 1
  /\ UNCHANGED <<store, task, served, wire>>

\* the clock of the sweep specification: the store answers every command
\* within the period in which it was issued, and the sweep due in a period
\* is run in it
SweepTick ==
  /\ now < SweepHorizon
  /\ served[Sweeper] * QUEUE_CLEANUP_INTERVAL > now
  /\ \A t \in Workers \cup {Sweeper} : task[t].pc \in {"idle", "done"}
  /\ now' = now + 1
  /\ UNCHANGED <<store, task, served, wire>>

\* ------------------------------------------------------------------- Init
Init ==
  /\ queue = [m \in ModSet |-> [u \in Users |-> NoScore]]
  /\ blob = [u \in Users |-> <<>>]
  /\ lock = [m \in ModSet |-> NoTask]
  /\ sessRec = [s \in SessionIds |-> <<>>]
  /\ sessUser = [u \in Users |-> NoSid]
  /\ db = [s \in SessionIds |-> "none"]
  /\ nextSid = 1
  /\ now = 0
  /\ task = [t \in Tasks |-> Idle]
  /\ served = [t \in Tasks |-> 0]
  /\ userSockets = [i \in Instances |-> [u \in Users |-> <<>>]]
  /\ presence = [u \in Users |-> FALSE]
  /\ inbox = [s \in Sockets |-> <<>>]
  /\ sockState = [s \in Sockets |-> "new"]
  /\ load = [i \in Instances |-> [cpu |-> 50, memory |-> 50]]
  /\ lb = [i \in Instances |-> NoInstance]

\* N concurrent quickMatch calls for the video queue, one per distinct user:
\* task t is user t's call and runs once
NextQuick ==
  \/ \E t \in Tasks :
       \/ (t \in Users /\ StartQuickMatch(t, t, "video"))
       \/ AtqZscore(t) \/ AtqSet(t) \/ AtqZadd(t)
       \/ MuInQueue(t)
       \/ FmLock(t) \/ FmRange(t) \/ FmReleaseNull(t)
       \/ FmZrem(t) \/ FmGetData(t) \/ FmRelease(t)
       \/ GasPtr(t) \/ (\E ok \in BOOLEAN : CsDb(t, ok))
       \/ CsSetRec(t) \/ CsSetU1(t) \/ CsSetU2(t)
       \/ RfqZrem(t) \/ RfqDel(t)
  \/ Tick

SpecQuick == Init /\ [][NextQuick]_vars

\* clients of the matching pipeline: worker t handles the queue:join and
\* queue:leave events of user t's socket, one event at a time, for the video and
\* audio queues; the workers run concurrently
JoinMods == {"video", "audio"}
Next ==
  \/ \E t \in Workers :
       \/ (\E m \in JoinMods : StartQuickMatch(t, t, m))
       \/ (\E m \in JoinMods : StartCancelMatching(t, t, m))
       \/ AtqZscore(t) \/ AtqSet(t) \/ AtqZadd(t)
       \/ MuInQueue(t)
       \/ FmLock(t) \/ FmRange(t) \/ FmReleaseNull(t)
       \/ FmZrem(t) \/ FmGetData(t) \/ FmRelease(t)
       \/ GasPtr(t) \/ GasRec(t) \/ (\E ok \in BOOLEAN : CsDb(t, ok))
       \/ CsSetRec(t) \/ CsSetU1(t) \/ CsSetU2(t)
       \/ RfqZrem(t) \/ RfqDel(t)
       \/ Recycle(t)
  \/ Tick

Spec == Init /\ [][Next]_vars

\* the session side: worker t handles the friend:call events (to any friend) and
\* the session ends (match:next, call:end, disconnect) of user t's socket, one
\* event at a time; the workers run concurrently
NextSess ==
  \E t \in Workers :
    \/ (\E fr \in Users : StartMatchWithFriend(t, t, fr, "video"))
    \/ StartEndSessionForUser(t, t)
    \/ GasPtr(t) \/ GasRec(t) \/ GasDel(t)
    \/ (\E ok \in BOOLEAN : CsDb(t, ok))
    \/ CsSetRec(t) \/ CsSetU1(t) \/ CsSetU2(t)
    \/ EsGet(t) \/ EsDb(t) \/ EsDelRec(t) \/ EsDelU1(t) \/ EsDelU2(t)
    \/ Recycle(t)

SpecSess == Init /\ [][NextSess]_vars

\* one caller at a time: direct calls of addToQueue, matchUser and quickMatch
\* for the video queue, each completed before the next
FifoTasks == {t \in Tasks : \A t2 \in Tasks : t <= t2}
NextFifo ==
  \/ \E t \in FifoTasks :
       \/ (\E u \in Users : StartAddToQueue(t, u, "video"))
       \/ StartRemoveFromQueue(t)
       \/ (\E u \in Users : StartMatchUser(t, u, "video"))
       \/ (\E u \in Users : StartQuickMatchAt(t, u, "video"))
       \/ AtqZscore(t) \/ AtqSet(t) \/ AtqZadd(t)
       \/ MuInQueue(t)
       \/ FmLock(t) \/ FmRange(t) \/ FmReleaseNull(t)
       \/ FmZrem(t) \/ FmGetData(t) \/ FmRelease(t)
       \/ GasPtr(t) \/ (\E ok \in BOOLEAN : CsDb(t, ok))
       \/ CsSetRec(t) \/ CsSetU1(t) \/ CsSetU2(t)
       \/ RfqZrem(t) \/ RfqDel(t)
       \/ Recycle(t)
  \/ FifoTick

SpecFifo == Init /\ [][NextFifo]_vars

\* the queues under the periodic stale sweep: worker t handles the queue:join
\* and queue:leave events of user t's socket, the sweeper runs beside them
NextSweep ==
  \/ \E t \in Workers :
       \/ (\E m \in JoinMods : served[t] < SweepEvents /\ StartQuickMatch(t, t, m))
       \/ (served[t] <= SweepEvents /\ StartCancelMatching(t, t, "video"))
       \/ AtqZscore(t) \/ AtqSet(t) \/ AtqZadd(t)
       \/ MuInQueue(t)
       \/ FmLock(t) \/ FmRange(t) \/ FmReleaseNull(t)
       \/ FmZrem(t) \/ FmGetData(t) \/ FmRelease(t)
       \/ GasPtr(t) \/ (\E ok \in BOOLEAN : CsDb(t, ok))
       \/ CsSetRec(t) \/ CsSetU1(t) \/ CsSetU2(t)
       \/ RfqZrem(t) \/ RfqDel(t)
       \/ Recycle(t)
  \/ StartCleanupStaleEntries(Sweeper)
  \/ CseZrem(Sweeper)
  \/ SweepTick

SpecSweep == Init /\ [][NextSweep]_vars

\* the connections: every socket connects once and closes once; slot t runs
\* the connection and the disconnection handler of socket t
NextConn ==
  \E t \in Tasks :
    \/ HandleConnection(t) \/ RegOnline(t)
    \/ HandleDisconnection(t)
    \/ RfqZrem(t) \/ RfqDel(t)
    \/ GasPtr(t)
    \/ CuOffline(t) \/ UnregisterSocket(t) \/ UnregOffline(t)
    \/ Recycle(t)

SpecConn == Init /\ [][NextConn]_vars

\* the disconnect cascade beside the matching pipeline: slot t runs the
\* handlers of socket t, the only socket of user t: connection, queue:join
\* for the video queue, disconnection
NextDisc ==
  \/ \E t \in Workers :
       \/ HandleConnection(t) \/ RegOnline(t)
       \/ (sockState[t] = "open" /\ StartQuickMatch(t, t, "video"))
       \/ HandleDisconnection(t)
       \/ AtqZscore(t) \/ AtqSet(t) \/ AtqZadd(t)
       \/ MuInQueue(t)
       \/ FmLock(t) \/ FmRange(t) \/ FmReleaseNull(t)
       \/ FmZrem(t) \/ FmGetData(t) \/ FmRelease(t)
       \/ GasPtr(t) \/ GasRec(t) \/ GasDel(t) \/ (\E ok \in BOOLEAN : CsDb(t, ok))
       \/ CsSetRec(t) \/ CsSetU1(t) \/ CsSetU2(t)
       \/ EsGet(t) \/ EsDb(t) \/ EsDelRec(t) \/ EsDelU1(t) \/ EsDelU2(t)
       \/ RfqZrem(t) \/ RfqDel(t)
       \/ CuOffline(t) \/ UnregisterSocket(t) \/ UnregOffline(t)
       \/ Recycle(t)
  \/ Tick

SpecDisc == Init /\ [][NextDisc]_vars

\* a session in progress: users 1 and 2 are paired in session 1; socket 1 of
\* user 1 is connected, and so are one or both of user 2's sockets, socket 4
\* on the instance of socket 1 and socket 2 on the other instance
InitRelay ==
  /\ queue = [m \in ModSet |-> [u \in Users |-> NoScore]]
  /\ blob = [u \in Users |-> <<>>]
  /\ lock = [m \in ModSet |-> NoTask]
  /\ sessRec = [s \in SessionIds |->
                  IF s = 1 THEN <<[id |-> 1, sessionType |-> "video",
                                   user1Id |-> 1, user2Id |-> 2]>>
                  ELSE <<>>]
  /\ sessUser = [u \in Users |-> IF u \in {1, 2} THEN 1 ELSE NoSid]
  /\ db = [s \in SessionIds |-> IF s = 1 THEN "active" ELSE "none"]
  /\ nextSid = 2
  /\ now = 0
  /\ task = [t \in Tasks |-> Idle]
  /\ served = [t \in Tasks |-> 0]
  /\ \E B \in (SUBSET {2, 4}) \ {{}} :
       /\ sockState = [s \in Sockets |-> IF s \in {1} \cup B THEN "open" ELSE "new"]
       /\ userSockets =
            [i \in Instances |-> [u \in Users |->
               LET ss == {s \in {1} \cup B : InstanceOf(s) = i /\ OwnerOf(s) = u} IN
               IF ss = {} THEN <<>> ELSE <<ss>>]]
  /\ presence = [u \in Users |-> u \in {1, 2}]
  /\ inbox = [s \in Sockets |-> <<>>]
  /\ load = [i \in Instances |-> [cpu |-> 50, memory |-> 50]]
  /\ lb = [i \in Instances |-> NoInstance]

\* the events of socket 1 during the session: each is handled in a slot of
\* its own, the handlers of earlier events still running
NextRelay ==
  \E t \in Tasks :
    \/ (\E ev \in {"chat:message", "call:offer", "match:next"} : StartSocketEvent(t, ev))
    \/ GspPtr(t) \/ GspRec(t) \/ GspDel(t)
    \/ GasPtr(t) \/ GasRec(t) \/ GasDel(t)
    \/ EsGet(t) \/ EsDb(t) \/ EsDelRec(t) \/ EsDelU1(t) \/ EsDelU2(t)

SpecRelay == InitRelay /\ [][NextRelay]_vars

\* user 1 asks for a rematch: session 1, between users 1 and 2, is in
\* progress or is over; any of users 2 and 3 may be waiting in the video queue
\* (a friend call pairs a user without looking at the queues)
InitRematch ==
  /\ \E W \in SUBSET {2, 3} :
       /\ queue = [m \in ModSet |-> [u \in Users |->
                     IF m = "video" /\ u \in W THEN 0 ELSE NoScore]]
       /\ blob = [u \in Users |->
                     IF u \in W THEN <<[userId |-> u, socketId |-> u, joinedAt |-> 0]>>
                     ELSE <<>>]
  /\ lock = [m \in ModSet |-> NoTask]
  /\ \E live \in BOOLEAN :
       /\ sessRec = [s \in SessionIds |->
                       IF s = 1 /\ live THEN <<[id |-> 1, sessionType |-> "video",
                                                user1Id |-> 1, user2Id |-> 2]>>
                       ELSE <<>>]
       /\ sessUser = [u \in Users |-> IF u \in {1, 2} /\ live THEN 1 ELSE NoSid]
       /\ db = [s \in SessionIds |->
                  IF s = 1 THEN (IF live THEN "active" ELSE "ended") ELSE "none"]
  /\ nextSid = 2
  /\ now = 0
  /\ task = [t \in Tasks |-> Idle]
  /\ served = [t \in Tasks |-> 0]
  /\ userSockets = [i \in Instances |-> [u \in Users |-> <<>>]]
  /\ presence = [u \in Users |-> FALSE]
  /\ inbox = [s \in Sockets |-> <<>>]
  /\ sockState = [s \in Sockets |-> "new"]
  /\ load = [i \in Instances |-> [cpu |-> 50, memory |-> 50]]
  /\ lb = [i \in Instances |-> NoInstance]

\* slot 1 runs the rematch of user 1; beside it slot 2 handles one queue:join
\* for the video queue, of user 2 or of user 3
NextRematch ==
  \/ StartRematch(1, 1, "video")
  \/ (\E u \in {2, 3} : served[2] = 0 /\ StartQuickMatch(2, u, "video"))
  \/ \E t \in Workers :
       \/ AtqZscore(t) \/ AtqSet(t) \/ AtqZadd(t)
       \/ MuInQueue(t)
       \/ FmLock(t) \/ FmRange(t) \/ FmReleaseNull(t)
       \/ FmZrem(t) \/ FmGetData(t) \/ FmRelease(t)
       \/ GasPtr(t) \/ GasRec(t) \/ GasDel(t) \/ (\E ok \in BOOLEAN : CsDb(t, ok))
       \/ CsSetRec(t) \/ CsSetU1(t) \/ CsSetU2(t)
       \/ EsGet(t) \/ EsDb(t) \/ EsDelRec(t) \/ EsDelU1(t) \/ EsDelU2(t)
       \/ RfqZrem(t) \/ RfqDel(t)
  \/ Tick

SpecRematch == InitRematch /\ [][NextRematch]_vars

\* the upgrades under changing load: every socket attempts to connect once,
\* slot t runs the upgrade and the connection handler of socket t
NextAdmit ==
  \/ \E t \in Tasks : Admission(t) \/ RegOnline(t)
  \/ \E i \in Instances : LoadChange(i)

SpecAdmit == Init /\ [][NextAdmit]_vars

\* chat during and after a session: socket 1 submits chat messages of any
\* length and match:next, each handled in a slot of its own
NextChat ==
  \E t \in Tasks :
    \/ (\E txt \in {<<0, 0>>, <<2, 0>>, <<1, 1>>, <<1000, 1000>>, <<1001, 1001>>, <<1001, 999>>} :
          StartChatMessage(t, txt))
    \/ StartSocketEvent(t, "match:next")
    \/ GspPtr(t) \/ GspRec(t) \/ GspDel(t)
    \/ GasPtr(t) \/ GasRec(t) \/ GasDel(t)
    \/ EsGet(t) \/ EsDb(t) \/ EsDelRec(t) \/ EsDelU1(t) \/ EsDelU2(t)

SpecChat == InitRelay /\ [][NextChat]_vars

\* the ways a session ends, side by side: slot 1 handles the friend calls and
\* the session ends of user 1's socket, slot 2 runs endAllActiveSessions, the
\* last slot the cleanup job; session 1 between users 1 and 2 is in progress
NextEnd ==
  \/ (\E fr \in Users : StartMatchWithFriend(1, 1, fr, "video"))
  \/ StartEndSessionForUser(1, 1)
  \/ StartEndAllActiveSessions(2)
  \/ (\E S \in SUBSET SessionIds : StartCleanupAbandonedSessions(Sweeper, S))
  \/ CasScan(Sweeper) \/ CasKey(Sweeper)
  \/ \E t \in Workers :
       \/ GasPtr(t) \/ GasRec(t) \/ GasDel(t)
       \/ (\E ok \in BOOLEAN : CsDb(t, ok))
       \/ CsSetRec(t) \/ CsSetU1(t) \/ CsSetU2(t)
       \/ EsGet(t) \/ EsDb(t) \/ EsDelRec(t) \/ EsDelU1(t) \/ EsDelU2(t)
       \/ Recycle(t)

SpecEnd == InitRelay /\ [][NextEnd]_vars

\* the session side with a store that may answer the last command of
\* createSession with an error
NextFail ==
  \/ NextSess
  \/ \E t \in Workers : CsSetU2Fails(t)

SpecFail == Init /\ [][NextFail]_vars

\* concurrent quickMatch calls with a matching lock that may expire under its
\* holder
NextLock ==
  \/ \E t \in Workers :
       \/ StartQuickMatch(t, t, "video")
       \/ AtqZscore(t) \/ AtqSet(t) \/ AtqZadd(t)
       \/ MuInQueue(t)
       \/ FmLock(t) \/ FmRange(t) \/ FmReleaseNull(t)
       \/ FmZrem(t) \/ FmGetData(t) \/ FmRelease(t)
       \/ GasPtr(t) \/ (\E ok \in BOOLEAN : CsDb(t, ok))
       \/ CsSetRec(t) \/ CsSetU1(t) \/ CsSetU2(t)
       \/ RfqZrem(t) \/ RfqDel(t)
  \/ LockExpires("video")

SpecLock == Init /\ [][NextLock]_vars

\* two clients join the video queue, one quickMatch call each, beside the
\* background matcher of the video queue; every call's store commands are
\* answered and the matcher's timer keeps firing
NextMatcher ==
  \/ \E t \in Workers :
       \/ StartQuickMatch(t, t, "video")
       \/ AtqZscore(t) \/ AtqSet(t) \/ AtqZadd(t)
       \/ MuInQueue(t)
       \/ FmLock(t) \/ FmRange(t) \/ FmReleaseNull(t)
       \/ FmZrem(t) \/ FmGetData(t) \/ FmRelease(t)
       \/ GasPtr(t) \/ CsDb(t, TRUE)
       \/ CsSetRec(t) \/ CsSetU1(t) \/ CsSetU2(t)
       \/ RfqZrem(t) \/ RfqDel(t)
  \/ StartProcessQueue(Sweeper, "video")
  \/ PqCard(Sweeper)

SpecMatcher ==
  /\ Init /\ [][NextMatcher]_vars
  /\ WF_vars(NextMatcher)
  /\ WF_vars(StartProcessQueue(Sweeper, "video") \/ PqCard(Sweeper))

\* the session side while session 1 between users 1 and 2 is in progress
SpecHeal == InitRelay /\ [][NextSess]_vars

\* one instance's record under its own writers: slot 1 runs instance 1's
\* heartbeats and its stop, slot 2 the other calls on the record
NextLb ==
  \/ LbStart(1)
  \/ StartLbCall(1, 1, "sendHeartbeat", 0)
  \/ LbStop(1, 1) \/ DrMetrics(1)
  \/ (\E count \in {1, 2} : StartLbCall(2, 1, "updateConnectionCount", count))
  \/ (\E op \in {"markUnhealthy", "markHealthy"} : StartLbCall(2, 1, op, 0))
  \/ (\E t \in Workers : LbGet(t) \/ LbSetex(t) \/ HbStore(t))
  \/ LbTick

SpecLb == Init /\ [][NextLb]_vars

\* the instance records as the static functions see them: both instances
\* start, instance 1 sends heartbeats (slot 1) and updates its connection
\* count or marks itself unhealthy (slot 2), and the last slot runs
\* getHealthyInstances and cleanupDeadInstances
NextHealth ==
  \/ (\E i \in Instances : LbStart(i))
  \/ StartLbCall(1, 1, "sendHeartbeat", 0)
  \/ StartLbCall(2, 1, "updateConnectionCount", 1)
  \/ StartLbCall(2, 1, "markUnhealthy", 0)
  \/ (\E t \in Workers : LbGet(t) \/ LbSetex(t) \/ HbStore(t))
  \/ GetHealthyInstances(Sweeper)
  \/ StartCleanupDeadInstances(Sweeper) \/ CdGet(Sweeper) \/ CdDel(Sweeper)
  \/ LbTick

SpecHealth == Init /\ [][NextHealth]_vars

\* both ways into a session: worker t handles the queue:join events (video)
\* and the friend calls of user t's socket, one event at a time
NextJoin ==
  \E t \in Workers :
    \/ StartQueueJoin(t, t, "video")
    \/ (\E fr \in Users : StartMatchWithFriend(t, t, fr, "video"))
    \/ AtqZscore(t) \/ AtqSet(t) \/ AtqZadd(t)
    \/ MuInQueue(t)
    \/ FmLock(t) \/ FmRange(t) \/ FmReleaseNull(t)
    \/ FmZrem(t) \/ FmGetData(t) \/ FmRelease(t)
    \/ GasPtr(t) \/ GasRec(t) \/ CsDb(t, TRUE)
    \/ CsSetRec(t) \/ CsSetU1(t) \/ CsSetU2(t)
    \/ RfqZrem(t) \/ RfqDel(t)
    \/ Recycle(t)

SpecJoin == Init /\ [][NextJoin]_vars

\* setInterval keeps firing sendHeartbeat while the timer is set, and the
\* store answers every command
SpecLbFair ==
  /\ Init /\ [][NextLb]_vars
  /\ WF_vars(StartLbCall(1, 1, "sendHeartbeat", 0) \/ LbGet(1) \/ LbSetex(1) \/ HbStore(1))
  /\ WF_vars(\E t \in Workers : LbGet(t) \/ LbSetex(t) \/ HbStore(t))

\* ================================================================ properties
SessionMembers(s) == {sessRec[s][1].user1Id, sessRec[s][1].user2Id}
\* the active sessions (session:<id> records) that contain user u
SessionsOf(u) == {s \in SessionIds : sessRec[s] # <<>> /\ u \in SessionMembers(s)}
\* the modalities in whose queue user u has a waiting entry
QueuesOf(u) == {m \in ModSet : queue[m][u] # NoScore}
Quiescent == \A t \in Tasks : task[t].pc \in {"idle", "done"}

\* C1: in every reachable state each user is a member of at most one active
\* session, also when sessions are created concurrently for overlapping users
C1_AtMostOneActiveSession == \A u \in Users : Cardinality(SessionsOf(u)) <= 1

\* C2: in every reachable state each user has a waiting entry in at most one of
\* the three modality queues
C2_AtMostOneQueue == \A u \in Users : Cardinality(QueuesOf(u)) <= 1

\* task t takes a step of findMatch (the re-add of the caller included)
FindMatchStep(t) ==
  /\ task'[t] # task[t]
  /\ \/ task[t].pc \in {"fm_lock", "fm_range", "fm_release_null", "fm_zrem",
                        "fm_getdata", "fm_release"}
     \/ /\ task[t].pc \in {"atq_zscore", "atq_set", "atq_zadd"}
        /\ Head(task[t].ret) = "fm_readded"
\* after the step, the two entries the call read are both in the queue or both out
BothOrNeither(t) ==
  LET f == task[t] IN
  (queue'[f.mod][f.users[1]] = NoScore) <=> (queue'[f.mod][f.users[2]] = NoScore)
\* the step re-inserts the caller alone, after partner data was not found
CallerReadded(t) ==
  LET f == task[t] IN
  /\ f.pc = "atq_zadd" /\ f.pd = <<>> /\ f.a = f.uid
  /\ queue' = [queue EXCEPT ![f.mod][f.uid] = f.ts]

Holding(t) ==
  /\ task[t].users # <<>>
  /\ task[t].pc \in {"fm_getdata", "fm_release", "gas_ptr", "gas_rec", "gas_del",
                     "cs_db", "cs_setrec", "cs_setu1", "cs_setu2"}
HeldBy(t) == {task[t].users[1], task[t].users[2]}

C6_PointersBothOrNeither ==
  Quiescent =>
    \A s \in SessionIds : sessRec[s] # <<>> =>
      ((sessUser[sessRec[s][1].user1Id] = s) <=> (sessUser[sessRec[s][1].user2Id] = s))

\* the score user u had when findMatch of task t removed it
OrigScore(t, u) == IF task[t].users[1] = u THEN task[t].orig[1] ELSE task[t].orig[2]

\* C8: when session creation fails after a pair extraction, each of the two
\* users is put back with the joinedAt score it had before the extraction
C8_ReaddedAtOriginalScore ==
  [][\A t \in Tasks :
       /\ task[t].pc = "atq_zadd" /\ task'[t].pc # "atq_zadd"
       /\ Head(task[t].ret) \in {"mu_readd1", "mu_readd2"}
       => queue'[task[t].mod][task[t].a] = OrigScore(t, task[t].a)]_vars

\* C9: the pair a successful findMatch removes is the two lowest waiting entries
\* in (joinedAt, userId) order at the time of the removal, and the partner it
\* returns is the other one of the two
C9_ExtractsLowestTwo ==
  [][\A t \in Tasks :
       task[t].pc = "fm_getdata" /\ task'[t].pc = "fm_release" /\ task'[t].pd # <<>> =>
         /\ task[t].low
         /\ {task[t].uid, task'[t].pd[1].userId} = {task[t].users[1], task[t].users[2]}]_vars

FoundQueue(t, a, b, c) == task[t].pc = "done" /\ task[t].q0 = <<a, b, c>>
\* a session between a and b exists, c alone waits, in position 1
PairedLeaving(a, b, c) ==
  /\ \E s \in SessionIds : sessRec[s] # <<>> /\ SessionMembers(s) = {a, b}
  /\ Members(queue["video"]) = {c}
  /\ QueuePosition("video", c) = 1

NoPairFor(q, u) ==
  \/ Cardinality(Members(q)) < 2
  \/ q[u] = NoScore
  \/ Rank(q, u) > 1

\* C11: findMatch returns null and leaves the queue (members and scores, hence
\* the order) as it is when the lock is not acquired, when fewer than two users
\* wait, and when the caller is not among the two oldest entries; the null is
\* seen in quickMatch answering 'Waiting for match'
C11_FindMatchNullLeavesQueue ==
  [][\A t \in Tasks :
       LET f == task[t] IN
       /\ (f.pc = "fm_lock" /\ lock[f.mod] # NoTask /\ task'[t] # f)
             => /\ queue' = queue
                /\ task'[t].pc = "done" /\ task'[t].res = "waiting"
       /\ (f.pc = "fm_range" /\ NoPairFor(queue[f.mod], f.uid) /\ task'[t] # f)
             => /\ queue' = queue
                /\ task'[t].pc = "fm_release_null"
       /\ (f.pc = "fm_release_null" /\ task'[t] # f)
             => /\ queue' = queue
                /\ task'[t].pc = "done" /\ task'[t].res = "waiting"]_vars

\* the third caller was answered null while the two older entries still wait
C11_Witness ==
  \E t \in Tasks :
    /\ task[t].pc = "done" /\ task[t].res = "waiting"
    /\ Cardinality(Members(queue[task[t].mod])) = 3
    /\ Rank(queue[task[t].mod], task[t].uid) = 2

\* ---------------------------------------------------------------- C12
\* C12: addToQueue of a user who is in the requested queue returns false and
\* leaves every queue as it is (members, scores, size); the false is seen in the
\* direct call answering not_added and in quickMatch answering 'Failed to join
\* queue'
C12_DuplicateEnqueueRejected ==
  [][\A t \in Tasks :
       LET f == task[t] IN
       (f.pc = "atq_zscore" /\ queue[f.am][f.a] # NoScore /\ task'[t] # f)
         => /\ queue' = queue
            /\ task'[t].pc # "atq_set"
            /\ f.ret = <<"atq_done">>
                 => task'[t].pc = "done" /\ task'[t].res = "not_added"
            /\ f.ret = <<"qm_added">>
                 => task'[t].pc = "done" /\ task'[t].res = "failed_to_join"]_vars

\* a direct addToQueue of a waiting user was answered false, the user still
\* waits with the score of the first insertion, now in the past
C12_Witness ==
  \E t \in Tasks :
    /\ task[t].pc = "done" /\ task[t].op = "addToQueue" /\ task[t].res = "not_added"
    /\ queue[task[t].mod][task[t].uid] # NoScore
    /\ queue[task[t].mod][task[t].uid] < now

\* ---------------------------------------------------------------- C13
\* the endSession call of task t returns false to endSessionForUser
EndSessionFalse(t) == task'[t].pc = "done" /\ task'[t].res = "not_ended"

C14_EnqueueDequeueRestores ==
  \A t \in Tasks :
    (task[t].pc = "done" /\ task[t].op = "removeFromQueue") =>
      /\ task[t].res = "removed"
      /\ Members(queue[task[t].mod]) = {task[t].q0[i] : i \in 1..Len(task[t].q0)}
      /\ Cardinality(Members(queue[task[t].mod])) = Len(task[t].q0)
      /\ task[t].uid \notin Members(queue[task[t].mod])

\* the pair of calls has been made on a queue in which two others wait
C14_Witness ==
  \E t \in Tasks :
    /\ task[t].pc = "done" /\ task[t].op = "removeFromQueue"
    /\ task[t].res = "removed"
    /\ Len(task[t].q0) = 2

\* ---------------------------------------------------------------- C15
\* C15: a socket is registered and, with no other registration or
\* unregistration in between, unregistered: the map of every instance is what
\* it was before the registration, the user's entry absent again when the
\* socket was the user's only one
C15_RegisterUnregisterRestores ==
  [][\A t \in Tasks :
       (/\ task[t].pc = "cu_unreg" /\ task'[t].pc # "cu_unreg"
        /\ task[t].q0 # <<>> /\ userSockets = task[t].q0[1])
         => userSockets' = task[t].s1[1]]_vars

\* the pair has been run for a second socket of a user: the first one is
\* registered as before
C15_Witness ==
  \E t \in Tasks :
    /\ task[t].op = "disconnect" /\ task[t].pc = "done"
    /\ task[t].q0 # <<>> /\ task[t].s1 # <<>>
    /\ userSockets = task[t].s1[1]
    /\ userSockets # task[t].q0[1]
    /\ userSockets[InstanceOf(t)][OwnerOf(t)] # <<>>

\* ---------------------------------------------------------------- C17
\* C17: presence goes from online to offline only when none of the user's
\* sockets is connected any more
C17_OfflineOnlyAfterLastSocket ==
  [][\A u \in Users :
       (presence[u] /\ ~presence'[u])
         => \A s \in Sockets : OwnerOf(s) = u => sockState'[s] # "open"]_vars

\* ---------------------------------------------------------------- C16
\* C16: once the cleanup run for a user's closed socket is over, the user is in
\* no queue and no session names the user, whatever other users' handlers were
\* doing meanwhile
C16_NothingLeftAfterDisconnect ==
  \A s \in Sockets \cap Workers :
    (sockState[s] = "closed" /\ task[s].pc \in {"idle", "done"})
      => QueuesOf(OwnerOf(s)) = {} /\ SessionsOf(OwnerOf(s)) = {}

\* ---------------------------------------------------------------- C18
\* the entries of inbox[s] that carry event ev of submission n from sender a
Received(s, ev, a, n) ==
  {i \in 1..Len(inbox[s]) :
     inbox[s][i].ev = ev /\ inbox[s][i].senderId = a /\ inbox[s][i].seq = n}

\* C18: the sender's chat:message handler has found the partner and is done,
\* and the partner's sockets are all on other instances than the sender's:
\* each of them has received the message, once, with the sender's id
C18_RemotePartnerReceivesChat ==
  \A t \in Tasks :
    (/\ task[t].pc = "done" /\ task[t].op = "chat:message" /\ task[t].res = "relayed"
     /\ \A s \in Sockets : (OwnerOf(s) = task[t].peer /\ sockState[s] = "open")
                              => InstanceOf(s) # InstanceOf(1))
      => \A s \in Sockets : (OwnerOf(s) = task[t].peer /\ sockState[s] = "open")
                               => Cardinality(Received(s, "chat:message", task[t].uid, t)) = 1

\* ---------------------------------------------------------------- C19
\* C19: the chat messages and offers a socket has been sent from its partner
\* are in the order in which the partner's socket submitted them
C19_DeliveredInSubmissionOrder ==
  \A s \in Sockets : \A i, j \in 1..Len(inbox[s]) :
    (/\ i < j
     /\ inbox[s][i].ev \in {"chat:message", "call:offer"}
     /\ inbox[s][j].ev \in {"chat:message", "call:offer"}
     /\ inbox[s][i].senderId = inbox[s][j].senderId)
      => inbox[s][i].seq < inbox[s][j].seq

\* ---------------------------------------------------------------- C20
\* the match:next handler in slot t has begun to tear the session down, or
\* has ended it
TearingDown(t) ==
  /\ task[t].op = "match:next"
  /\ \/ task[t].pc \in {"es_delrec", "es_delu1", "es_delu2"}
     \/ task[t].pc = "done" /\ task[t].res = "ended"

\* C20: when the match:next handler of user 1 tears the session down, every
\* connected socket of the partner has been sent match:disconnected with
\* reason "skip"; when it has ended the session, the session is ended in the
\* database, its record is gone and neither member has a session pointer
C20_SkipNotifiesThenEnds ==
  \A t \in Tasks :
    /\ TearingDown(t) =>
         \A s \in Sockets : (OwnerOf(s) = 2 /\ sockState[s] = "open") =>
           \E i \in 1..Len(inbox[s]) :
             inbox[s][i].ev = "match:disconnected" /\ inbox[s][i].reason = "skip"
    /\ (task[t].op = "match:next" /\ task[t].pc = "done" /\ task[t].res = "ended") =>
         /\ db[1] = "ended" /\ sessRec[1] = <<>>
         /\ sessUser[1] = NoSid /\ sessUser[2] = NoSid

C22_SweepRemovesOlderOnly ==
  [][LET f == task[Sweeper]
         m == Modalities[f.idx]
         gone == {u \in Users : queue[m][u] # NoScore /\ queue'[m][u] = NoScore} IN
     (f.pc = "cse_zrem" /\ task'[Sweeper] # f) =>
       /\ gone = {u \in Users : queue[m][u] # NoScore /\ queue[m][u] < f.ts}
       /\ \A u \in Users \ gone : queue'[m][u] = queue[m][u]
       /\ \A m2 \in ModSet \ {m} : queue'[m2] = queue[m2]
       /\ task'[Sweeper].pc = "cse_zrem" => task'[Sweeper].c1 = f.c1 + Cardinality(gone)
       /\ task'[Sweeper].pc = "done" =>
            (task'[Sweeper].res = "swept" <=> f.c1 + Cardinality(gone) > 0)]_vars

C24_ChatOnlyToPartner ==
  [][\A t \in Tasks :
       LET f == task'[t] IN
       (task'[t] # task[t] /\ f.op = "chat:message") =>
         /\ \A s \in Sockets :
              (inbox'[s] # inbox[s] /\ inbox'[s][Len(inbox'[s])].ev = "chat:message") =>
                /\ inbox'[s] = Append(inbox[s], inbox'[s][Len(inbox'[s])])
                /\ f.q0[1] >= 1 /\ f.q0[1] <= 1000
                /\ \E sid \in SessionIds :
                     /\ sessRec[sid] # <<>> /\ sessUser[f.uid] = sid
                     /\ SessionMembers(sid) = {f.uid, OwnerOf(s)} /\ OwnerOf(s) # f.uid
         /\ (f.q0[1] < 1 \/ f.q0[1] > 1000) => f.pc = "done" /\ f.res = "invalid"
         /\ (f.pc = "done" /\ f.res # "relayed") =>
              /\ inbox'[1] = Append(inbox[1], inbox'[1][Len(inbox'[1])])
              /\ inbox'[1][Len(inbox'[1])].ev = "error"
              /\ \A s \in Sockets \ {1} : inbox'[s] = inbox[s]
         /\ sockState' = sockState]_vars

\* a message of 1001 characters was refused on the sender's socket and one of
\* 1000 characters relayed to the partner's socket on the same instance,
\* before match:next ended the session
C24_Witness ==
  \E t1, t2, t3 \in Tasks :
    /\ task[t1].pc = "done" /\ task[t1].res = "invalid" /\ task[t1].q0 = <<1001, 1001>>
    /\ task[t2].pc = "done" /\ task[t2].res = "relayed" /\ task[t2].q0 = <<1000, 1000>>
    /\ Received(4, "chat:message", 1, t2) # {}
    /\ task[t3].pc = "done" /\ task[t3].op = "match:next"
    /\ \E i \in 1..Len(inbox[1]) : inbox[1][i].reason = "Message too long (max 1000 characters)"

\* ---------------------------------------------------------------- C25
\* the createSession call of task t is in its second probe and will return
\* null: the first probe found a session of user1, or this step finds the
\* record of the session user2 is in
Refusing(t) ==
  LET f == task[t] IN
  /\ f.ret # <<>> /\ Head(f.ret) = "cs_got2"
  /\ f.pc \in {"gas_ptr", "gas_rec", "gas_del"}
  /\ f.s1 # <<>> \/ (f.pc = "gas_rec" /\ sessRec[f.sid] # <<>>)

C27_BlobIffQueued ==
  Quiescent => \A u \in Users : (blob[u] # <<>>) <=> (QueuesOf(u) # {})

\* ---------------------------------------------------------------- C28
\* C28: when a store call fails inside createSession, the friend call reports
\* the refusal and the session state is as it was before the call: the call
\* leaves no session record and no reverse pointer of the session it had begun
\* to write
C28_RefusedCreateLeavesNothing ==
  [][\A t \in Tasks :
       (/\ task[t].op = "matchWithFriend" /\ task[t].pc = "cs_setu2"
        /\ task'[t].pc = "done" /\ task'[t].res = "create_failed")
       => /\ sessRec'[task[t].sid] = <<>>
          /\ \A u \in Users : sessUser'[u] # task[t].sid]_vars

\* ---------------------------------------------------------------- C29
\* C29: the matching lock is released only by its holder: when a step of a
\* call removes the lock of a modality, that call is the one that held it
C29_ReleasedOnlyByHolder ==
  [][\A m \in ModSet : \A t \in Tasks :
       (lock[m] # NoTask /\ lock'[m] = NoTask /\ task'[t] # task[t])
       => lock[m] = t]_vars

\* ---------------------------------------------------------------- C30
\* C30: once two users wait in the video queue and every client call has
\* returned, the background matcher eventually pairs them: a session of the
\* two is created
C30_WaitingPairEventuallyMatched ==
  (/\ \A t \in Workers : task[t].pc = "done"
   /\ Cardinality({u \in Users : queue["video"][u] # NoScore}) >= 2)
  ~> (\E s \in SessionIds : sessRec[s] # <<>>)

\* ---------------------------------------------------------------- C31
\* C31: the session index agrees with the session records: whenever no
\* session call is under way, every record has the reverse pointers of both
\* its members, and every reverse pointer names a record of which its user is
\* a member
C31_IndexMatchesRecords ==
  Quiescent =>
    /\ \A s \in SessionIds : sessRec[s] # <<>> =>
         \A u \in SessionMembers(s) : sessUser[u] = s
    /\ \A u \in Users : sessUser[u] # NoSid =>
         (sessRec[sessUser[u]] # <<>> /\ u \in SessionMembers(sessUser[u]))

\* ---------------------------------------------------------------- C33
\* C33: a call:offer, call:answer or call:ice submitted while the sender has
\* no partner is dropped silently: its handler delivers nothing to any
\* socket, the sender's included
C33_SignalWithoutPartnerSilent ==
  \A t \in Tasks :
    (/\ task[t].op \in {"call:offer", "call:answer", "call:ice"}
     /\ task[t].pc = "done" /\ task[t].res = "no_session")
    => \A s \in Sockets : \A i \in 1..Len(inbox[s]) : inbox[s][i].seq # t

\* ---------------------------------------------------------------- C32
\* C32: a partner lookup that found a reverse pointer to a missing session
\* deletes that dangling pointer and nothing else: the pointer its del removes
\* names no session record
C32_LookupDeletesOnlyDangling ==
  [][\A t \in Tasks :
       (task[t].pc \in {"gas_del", "gsp_del"} /\ task'[t] # task[t])
       => LET u == IF task[t].pc = "gas_del" THEN task[t].a ELSE task[t].uid IN
          sessUser[u] = NoSid \/ sessRec[sessUser[u]] = <<>>]_vars

\* ---------------------------------------------------------------- C34
\* C34: getHealthyInstances returns exactly the records whose heartbeat is at
\* most 30 s old and whose healthy flag is set, whatever keeps the key alive,
\* and cleanupDeadInstances deletes no record that getHealthyInstances would
\* return
C34_HealthyExactlyAndNeverReaped ==
  [][/\ (task'[Sweeper].op = "getHealthyInstances" /\ task'[Sweeper] # task[Sweeper])
        => \A i \in Instances :
             (\E k \in 1..Len(task'[Sweeper].q0) : task'[Sweeper].q0[k] = i)
             <=> (/\ Stored(i) # <<>>
                  /\ now - Stored(i)[1].lastHeartbeat <= 3
                  /\ Stored(i)[1].isHealthy)
     /\ (task[Sweeper].pc = "cd_del" /\ task'[Sweeper] # task[Sweeper])
        => LET i == task[Sweeper].idx IN
           ~(/\ Stored(i) # <<>>
             /\ now - Stored(i)[1].lastHeartbeat <= 3
             /\ Stored(i)[1].isHealthy)]_vars

\* ---------------------------------------------------------------- C35
\* C35: a removeFromQueue for a modality in which the user is not waiting
\* returns false and leaves the queues and the blobs as they are, the user's
\* entry and blob in the queue where the user does wait included
C35_DequeueElsewhereChangesNothing ==
  [][\A t \in Tasks :
       (task[t].pc = "rfq_del" /\ task[t].rv = <<>> /\ task'[t] # task[t])
       => (queue' = queue /\ blob' = blob)]_vars

\* ---------------------------------------------------------------- C36
\* C36: whenever no call is under way, no user is both waiting in a queue and
\* a member of an active session
C36_NotWaitingAndInSession ==
  Quiescent => \A u \in Users : QueuesOf(u) = {} \/ SessionsOf(u) = {}

\* ---------------------------------------------------------------- C37
\* C37: no write to an instance record loses another call's update: the
\* setex of a heartbeat leaves activeConnections and the healthy flag as they
\* are in the store, that of a connection-count update leaves the heartbeat's
\* figures and the flag, that of markUnhealthy/markHealthy leaves the
\* heartbeat's figures and the count
C37_UpdatesNeverLost ==
  [][\A t \in Workers :
       (task[t].pc = "lb_setex" /\ task'[t].pc # "lb_setex" /\ Stored(task[t].idx) # <<>>)
       => LET old == lb[task[t].idx].rec[1]
              new == lb'[task[t].idx].rec[1]
              beat(r) == <<r.cpuUsage, r.memoryUsage, r.lastHeartbeat>> IN
          /\ task[t].op # "updateConnectionCount"
               => new.activeConnections = old.activeConnections
          /\ task[t].op \notin {"markUnhealthy", "markHealthy"}
               => new.isHealthy = old.isHealthy
          /\ task[t].op # "sendHeartbeat" => beat(new) = beat(old)]_vars

\* ---------------------------------------------------------------- C38
\* C38: once stop() of instance 1 has completed, and until the instance is
\* started again, its record is absent from the store
C38_StoppedInstanceHasNoRecord ==
  (~lb[1].timer /\ task[1].pc # "dr_metrics") => Stored(1) = <<>>

\* ---------------------------------------------------------------- C39
\* C39: while instance 1 is started and its heartbeat keeps firing, a missing
\* record (expired by TTL) is eventually re-created, unless the instance is
\* stopped
C39_MissingRecordRecreated ==
  (lb[1].timer /\ Stored(1) = <<>>) ~> (Stored(1) # <<>> \/ ~lb[1].timer)

\* ---------------------------------------------------------------- C40
\* C40: user 1 has the sockets 1 and 3, both on instance 1.  Once every
\* connection and disconnection handler of the sockets has completed, user 1
\* is online exactly when the registry of instance 1 holds a socket of user 1
C40_PresenceMatchesRegistry ==
  Quiescent => (presence[1] <=> userSockets[1][1] # <<>>)

====
